---- MODULE Spec2Model ----
(***************************************************************************)
(* State-machine model of src/src/PhysicsManager.js: the spatial partition *)
(* of a model's meshes into chunks (processGeometry / createSpatialChunks) *)
(* and the distance-based streaming of the chunks' bodies in and out of a  *)
(* physics world (updateChunks, addChunk, removeChunk, cleanup).           *)
(*                                                                         *)
(* Coordinates are integers.  A distance is never computed: d <= r is      *)
(* decided on the squares, with both sides doubled so that the centre of a *)
(* box, (min + max) / 2, needs no fraction.                                *)
(*                                                                         *)
(* The module also models src/src/LevelManager.js: the tables of a level   *)
(* chunk, their ASCII form, and the geometry generated from them.          *)
(***************************************************************************)
EXTENDS Integers, Sequences, FiniteSets, TLC

VARIABLES
  cfg,             \* maxChildrenPerChunk, loadRadius, unloadRadius, chunkSize
  chunks,          \* this.chunks: chunk id <<x, z>> -> PhysicsChunk
  chunkOrder,      \* insertion order of the keys of this.chunks (Map order)
  world,           \* this.world: NULL or the id of a physics world
  playerPosition,  \* this.playerPosition
  worldBodies,     \* the bodies held by each physics world
  model,           \* <<m>>: the model m was the last handed to processGeometry; <<>>: none yet
  scene,           \* the world transform each object of that model has now
  level,           \* the exported levelManager of src/src/LevelManager.js
  input,           \* the exported inputManager of src/unnamed/part_003, with its clock
  sensor,          \* the exported accelerometerManager of src/unnamed/part_004, with the sensor
  assets           \* the exported assetManager of src/unnamed/part_002

vars ==
  <<cfg, chunks, chunkOrder, world, playerPosition, worldBodies, model, scene, level, input,
    sensor, assets>>

-----------------------------------------------------------------------------
(* Bounds of the model *)

MaxMeshes == 3        \* objects in a model handed to processGeometry
MaxRejects == 1       \* addBody calls the physics world rejects in one call
MaxBodies == 3        \* bodies alive at once (in a world or in a chunk's list)

-----------------------------------------------------------------------------
(* Constructor defaults *)

DefaultMaxChildrenPerChunk == 10
DefaultLoadRadius == 50
DefaultUnloadRadius == 80
DefaultChunkSize == 20

NULL == "null"
Worlds == {"w1", "w2"}

\* a || b of JavaScript on numbers: 0 (as undefined, the field left out) is falsy
OrDefault(v, d) == IF v = 0 THEN d ELSE v

PhysicsManagerConstructor(options) ==
  [maxChildrenPerChunk |-> OrDefault(options.maxChildrenPerChunk, DefaultMaxChildrenPerChunk),
   loadRadius          |-> OrDefault(options.loadRadius, DefaultLoadRadius),
   unloadRadius        |-> OrDefault(options.unloadRadius, DefaultUnloadRadius),
   chunkSize           |-> OrDefault(options.chunkSize, DefaultChunkSize)]

Opt(m, l, u, c) ==
  [maxChildrenPerChunk |-> m, loadRadius |-> l, unloadRadius |-> u, chunkSize |-> c]

\* The options objects the constructor is given: none, the exported singleton's
\* (lines 426-431), a small-radius set-up, and one that sets loadRadius alone.
OptionSets ==
  { Opt(0, 0, 0, 0),
    Opt(8, 30, 50, 15),
    Opt(2, 5, 9, 8),
    Opt(0, 100, 0, 0) }

\* The options objects of the partition's check: small chunks with a cap of 1
\* and of 2, the defaults and the singleton's.
BuildOptionSets ==
  { Opt(0, 0, 0, 0),
    Opt(8, 30, 50, 15),
    Opt(1, 5, 9, 8),
    Opt(2, 5, 9, 8) }

-----------------------------------------------------------------------------
(* THREE.Vector3 and THREE.Box3 *)

Vec(x, y, z) == <<x, y, z>>

Min2(a, b) == IF a <= b THEN a ELSE b
Max2(a, b) == IF a >= b THEN a ELSE b

\* an empty Box3 has min = +Infinity and max = -Infinity; the flag stands for that
EmptyBox == [empty |-> TRUE, min |-> Vec(0, 0, 0), max |-> Vec(0, 0, 0)]

Box3(mn, mx) == [empty |-> FALSE, min |-> mn, max |-> mx]

BoxUnion(a, b) ==
  IF b.empty THEN a
  ELSE IF a.empty THEN b
  ELSE Box3([i \in 1..3 |-> Min2(a.min[i], b.min[i])],
            [i \in 1..3 |-> Max2(a.max[i], b.max[i])])

\* Box3.getSize: the zero vector for an empty box
getSize(b) == IF b.empty THEN Vec(0, 0, 0) ELSE [i \in 1..3 |-> b.max[i] - b.min[i]]

\* Box3.intersectsBox: closed intervals on the three axes, touching boxes intersect
intersectsBox(a, b) ==
  /\ ~a.empty
  /\ ~b.empty
  /\ \A i \in 1..3 : ~(b.max[i] < a.min[i] \/ b.min[i] > a.max[i])

\* twice Box3.getCenter
getCenter2(b) == IF b.empty THEN Vec(0, 0, 0) ELSE [i \in 1..3 |-> b.min[i] + b.max[i]]

\* the square of twice the distance from point to the centre of aabb
getDistanceToPoint2Sq(aabb, point) ==
  LET c == getCenter2(aabb)
      d == [i \in 1..3 |-> 2 * point[i] - c[i]]
  IN  d[1] * d[1] + d[2] * d[2] + d[3] * d[3]

\* distance <= radius, on the squares (a distance is >= 0, a radius need not be)
DistLE(dd, radius) == radius >= 0 /\ dd <= 4 * radius * radius

\* Math.ceil(a / b) for a >= 0 and b # 0
CeilDiv(a, b) == IF b > 0 THEN (a + b - 1) \div b ELSE -(a \div (-b))

-----------------------------------------------------------------------------
(* The objects of a model: what traverse visits.  box is the result of       *)
(* Box3.setFromObject(object); geom tells what generateTrimeshes meets:      *)
(* "ok", "nopos" (no position attribute) or "throws" (the extraction         *)
(* throws).  An object that is no mesh (a line, a point cloud) is not        *)
(* collected, and its geometry still widens the model's bounding box.  A     *)
(* mesh with no position attribute has an empty box of its own; MeshN has    *)
(* the box of a child that is no mesh.                                       *)

(* local is the box of the geometry's vertices, in the object's own frame;   *)
(* position, quaternion and scale are the object's world transform, which    *)
(* takes local to box.                                                       *)

\* the orientations: none, and half a turn about the Y axis
QIdentity == "identity"
QHalfTurnY == "halfTurnY"

\* the world box of the vertices in local under a world transform
WorldBox(local, position, quaternion, scale) ==
  IF local.empty THEN EmptyBox
  ELSE LET lo == [i \in 1..3 |-> local.min[i] * scale[i]]
           hi == [i \in 1..3 |-> local.max[i] * scale[i]]
           turned(i) == quaternion = QHalfTurnY /\ i # 2
       IN  Box3([i \in 1..3 |-> position[i] + (IF turned(i) THEN -hi[i] ELSE lo[i])],
                [i \in 1..3 |-> position[i] + (IF turned(i) THEN -lo[i] ELSE hi[i])])

\* an object at the origin, not turned, not scaled: its vertices are in world
\* coordinates
Obj(isMesh, geom, mn, mx) ==
  [isMesh |-> isMesh, geom |-> geom, box |-> Box3(mn, mx), local |-> Box3(mn, mx),
   position |-> Vec(0, 0, 0), quaternion |-> QIdentity, scale |-> Vec(1, 1, 1)]

\* the object o with another world transform
Placed(o, position, quaternion, scale) ==
  [o EXCEPT !.position = position, !.quaternion = quaternion, !.scale = scale,
            !.box = WorldBox(o.local, position, quaternion, scale)]

MeshA == Obj(TRUE,  "ok",     Vec(0, 0, 0),  Vec(8, 2, 8))
MeshB == Obj(TRUE,  "ok",     Vec(4, 0, 0),  Vec(12, 2, 8))
MeshC == Obj(TRUE,  "ok",     Vec(10, 0, 2), Vec(16, 2, 6))
MeshT == Obj(TRUE,  "throws", Vec(10, 0, 0), Vec(16, 2, 8))
MeshZ == Obj(TRUE,  "ok",     Vec(0, 0, 10), Vec(6, 2, 16))
MeshN == Obj(TRUE,  "nopos",  Vec(0, 0, 0),  Vec(6, 2, 6))
MeshE == [Obj(TRUE, "nopos", Vec(0, 0, 0), Vec(0, 0, 0)) EXCEPT !.box = EmptyBox, !.local = EmptyBox]
LineL == Obj(FALSE, "ok",     Vec(0, 0, 0),  Vec(8, 0, 8))
\* meshes whose vertices lie in one plane: no extent along X, none along Z
MeshF == Obj(TRUE,  "ok",     Vec(4, 0, 0),  Vec(4, 2, 8))
MeshG == Obj(TRUE,  "ok",     Vec(0, 0, 4),  Vec(8, 2, 4))

\* meshes away from the origin of their vertices: moved, and scaled by two
MeshP == Placed(Obj(TRUE, "ok", Vec(0, 0, 0), Vec(6, 2, 4)), Vec(10, 0, 2), QIdentity, Vec(1, 1, 1))
MeshS == Placed(Obj(TRUE, "ok", Vec(0, 0, 0), Vec(4, 1, 4)), Vec(0, 0, 0), QIdentity, Vec(2, 2, 2))

ObjectKinds == { MeshA, MeshB, MeshC, MeshT, MeshZ, MeshN, MeshE, LineL, MeshF, MeshG }

\* the world transform of an object
PoseOf(o) == [position |-> o.position, quaternion |-> o.quaternion, scale |-> o.scale]

\* the world transforms an object is moved to
Poses ==
  { [position |-> Vec(0, 0, 0), quaternion |-> QIdentity, scale |-> Vec(1, 1, 1)],
    [position |-> Vec(3, 0, 1), quaternion |-> QHalfTurnY, scale |-> Vec(1, 1, 1)] }

Models == UNION { [1..n -> ObjectKinds] : n \in 0..MaxMeshes }

\* the observer positions handed to updateChunks
Positions == { Vec(9, 1, 4), Vec(13, 1, 4), Vec(14, 1, 4), Vec(60, 1, 4), Vec(100, 1, 4) }

-----------------------------------------------------------------------------
(* PhysicsChunk *)

\* new PhysicsChunk(id, aabb)
PhysicsChunk(id, aabb) ==
  [id |-> id, aabb |-> aabb, trimeshes |-> <<>>, physicsBodies |-> <<>>,
   isLoaded |-> FALSE, meshChildren |-> <<>>]

\* the bodies alive: those a world holds and those a stored chunk lists
BodiesOf(cs, wb) ==
  UNION { wb[w] : w \in Worlds }
    \cup UNION { { cs[k].physicsBodies[i] : i \in 1..Len(cs[k].physicsBodies) } : k \in DOMAIN cs }

\* the least serial number that is not in used
Fresh(used) ==
  CHOOSE n \in 1..(Cardinality(used) + 1) : n \notin used /\ \A m \in 1..(n - 1) : m \in used

\* generateTrimeshes, from child i on: one entry for every child whose
\* extraction succeeds, in the order of meshChildren; index is forEach's index,
\* trimesh the CANNON.Trimesh of the child's vertices (as they are in the
\* geometry), and position, quaternion and scale are copies of the child's
\* world transform
RECURSIVE generateTrimeshes(_, _)
generateTrimeshes(meshChildren, i) ==
  IF i > Len(meshChildren) THEN <<>>
  ELSE LET child == meshChildren[i]
           rest == generateTrimeshes(meshChildren, i + 1)
       IN  IF ~child.isMesh THEN rest
           ELSE IF child.geom = "nopos" THEN rest    \* warn, return
           ELSE IF child.geom = "throws" THEN rest   \* caught, logged
           ELSE <<[index |-> i - 1, trimesh |-> child.local, position |-> child.position,
                   quaternion |-> child.quaternion, scale |-> child.scale]>> \o rest

-----------------------------------------------------------------------------
(* PhysicsManager.processGeometry and createSpatialChunks *)

\* traverse: the children that are meshes with a geometry
CollectMeshChildren(m) == SelectSeq(m, LAMBDA o : o.isMesh)

\* new THREE.Box3().setFromObject(model)
RECURSIVE OverallBBox(_, _)
OverallBBox(m, i) ==
  IF i > Len(m) THEN EmptyBox
  ELSE BoxUnion(m[i].box, OverallBBox(m, i + 1))

\* a grid count that rounds down and adds one
GridCountFloorPlusOne(size, chunkSize) == (size \div chunkSize) + 1

\* Math.ceil(size / chunkSize)
GridCount(size, chunkSize) == CeilDiv(size, chunkSize)

\* the bounds of cell (x, z): chunkSize wide in X and Z, the whole Y extent
ChunkAABB(bbox, x, z, chunkSize) ==
  LET size == getSize(bbox)
      min  == bbox.min
  IN  Box3(Vec(min[1] + x * chunkSize, min[2], min[3] + z * chunkSize),
           Vec(min[1] + (x + 1) * chunkSize, min[2] + size[2], min[3] + (z + 1) * chunkSize))

\* a cap test that lets one child too many in
CapReachedLate(childrenInChunk, maxChildrenPerChunk) == childrenInChunk > maxChildrenPerChunk

\* childrenInChunk >= this.maxChildrenPerChunk
CapReached(childrenInChunk, maxChildrenPerChunk) == childrenInChunk >= maxChildrenPerChunk

\* an intersection test for which boxes that only touch do not intersect
ChildOverlaps(chunkAABB, child) ==
  /\ ~child.box.empty
  /\ \A i \in 1..3 : child.box.max[i] > chunkAABB.min[i] /\ child.box.min[i] < chunkAABB.max[i]

\* chunkAABB.intersectsBox(new THREE.Box3().setFromObject(child))
ChildIntersects(chunkAABB, child) == intersectsBox(chunkAABB, child.box)

\* the forEach over meshChildren of one cell, from child i on; acc is
\* chunk.meshChildren so far (its length is childrenInChunk)
RECURSIVE AssignChildren(_, _, _, _, _)
AssignChildren(meshChildren, i, chunkAABB, maxChildrenPerChunk, acc) ==
  IF i > Len(meshChildren) THEN acc
  ELSE IF CapReached(Len(acc), maxChildrenPerChunk)
       THEN AssignChildren(meshChildren, i + 1, chunkAABB, maxChildrenPerChunk, acc)
  ELSE IF ChildIntersects(chunkAABB, meshChildren[i])
       THEN AssignChildren(meshChildren, i + 1, chunkAABB, maxChildrenPerChunk,
                           Append(acc, meshChildren[i]))
  ELSE AssignChildren(meshChildren, i + 1, chunkAABB, maxChildrenPerChunk, acc)

\* the cells in the order of the two nested loops: x outer, z inner
GridCells(gridX, gridZ) ==
  IF gridX <= 0 \/ gridZ <= 0 THEN <<>>
  ELSE [n \in 1..(gridX * gridZ) |-> <<(n - 1) \div gridZ, (n - 1) % gridZ>>]

\* Map.set: a new key goes last, a key already there keeps its place
MapSet(st, id, chunk) ==
  [chunks |-> [k \in DOMAIN st.chunks \cup {id} |-> IF k = id THEN chunk ELSE st.chunks[k]],
   order  |-> IF id \in DOMAIN st.chunks THEN st.order ELSE Append(st.order, id)]

\* an extraction that the first mesh to fail ends
generateTrimeshesUntilFailure(meshChildren) ==
  LET bad == { i \in 1..Len(meshChildren) : meshChildren[i].geom # "ok" }
      end == IF bad = {} THEN Len(meshChildren)
             ELSE (CHOOSE i \in bad : \A j \in bad : i <= j) - 1
  IN  generateTrimeshes(SubSeq(meshChildren, 1, end), 1)

\* chunk.generateTrimeshes() on a new chunk: this.trimeshes from the first child on
generateAllTrimeshes(meshChildren) == generateTrimeshes(meshChildren, 1)

\* the body of the two loops for cell n and the cells after it
RECURSIVE CreateCells(_, _, _, _, _, _)
CreateCells(cells, n, meshChildren, bbox, c, st) ==
  IF n > Len(cells) THEN st
  ELSE LET id       == cells[n]
           aabb     == ChunkAABB(bbox, id[1], id[2], c.chunkSize)
           children == AssignChildren(meshChildren, 1, aabb, c.maxChildrenPerChunk, <<>>)
           chunk    == [PhysicsChunk(id, aabb)
                          EXCEPT !.meshChildren = children,
                                 !.trimeshes = generateAllTrimeshes(children)]
       IN  IF Len(children) > 0
           THEN CreateCells(cells, n + 1, meshChildren, bbox, c, MapSet(st, id, chunk))
           ELSE CreateCells(cells, n + 1, meshChildren, bbox, c, st)

createSpatialChunks(meshChildren, overallBBox, c, st) ==
  LET size  == getSize(overallBBox)
      gridX == GridCount(size[1], c.chunkSize)
      gridZ == GridCount(size[3], c.chunkSize)
  IN  CreateCells(GridCells(gridX, gridZ), 1, meshChildren, overallBBox, c, st)


-----------------------------------------------------------------------------
(* PhysicsChunk.addToWorld and removeFromWorld.  st is the part of the     *)
(* heap a call works on: chunks, the worlds' bodies (wb), the calls made   *)
(* on the world so far, and the bodies that were alive when the call began *)
(* or were created since (seen); rej holds the <<chunk id, shape>> pairs   *)
(* whose world.addBody throws.                                             *)

\* a placement read from the source mesh when the body is made
TrimeshPoseOfMesh(st, id, k) ==
  LET entry == st.chunks[id].trimeshes[k]
      child == st.chunks[id].meshChildren[entry.index + 1]
      i     == CHOOSE i \in 1..Len(st.model[1]) : st.model[1][i] = child
  IN  [position |-> st.scene[i].position, quaternion |-> st.scene[i].quaternion]

\* body.position.set(trimeshData.position ...), body.quaternion.set(trimeshData.quaternion ...)
TrimeshPose(st, id, k) ==
  LET entry == st.chunks[id].trimeshes[k]
  IN  [position |-> entry.position, quaternion |-> entry.quaternion]

\* new CANNON.Body, addShape, position.set, quaternion.set.  A body is its
\* identity, one that no body seen has: the chunk and the shape it is made for,
\* and the least serial that no body seen for that shape has.  It has the shape
\* added to it and the placement set on it; it has no scale.
NewBody(st, id, k) ==
  LET pose == TrimeshPose(st, id, k)
  IN  [chunk      |-> id,
       shape      |-> k,
       serial     |-> Fresh({ b.serial : b \in { x \in st.seen : x.chunk = id /\ x.shape = k } }),
       trimesh    |-> st.chunks[id].trimeshes[k].trimesh,
       position   |-> pose.position,
       quaternion |-> pose.quaternion]

\* the forEach over this.trimeshes, from trimesh k on
RECURSIVE AddShapes(_, _, _, _, _)
AddShapes(st, id, k, w, rej) ==
  LET chunk == st.chunks[id] IN
  IF k > Len(chunk.trimeshes) THEN st
  ELSE LET body == NewBody(st, id, k) IN
       IF <<id, k>> \in rej
       THEN \* world.addBody throws: caught, the body is dropped
            AddShapes([st EXCEPT !.calls = Append(@, <<"addBody", w, body, FALSE>>),
                                 !.seen = @ \cup {body}],
                      id, k + 1, w, rej)
       ELSE AddShapes([st EXCEPT !.wb[w] = @ \cup {body},
                                 !.chunks[id].physicsBodies = Append(@, body),
                                 !.calls = Append(@, <<"addBody", w, body, TRUE>>),
                                 !.seen = @ \cup {body}],
                      id, k + 1, w, rej)

\* a load that lists a body before the world has taken it
addToWorldRecordsRejected(st, id, w, rej) ==
  IF st.chunks[id].isLoaded THEN st
  ELSE [AddShapes(st, id, 1, w, rej)
          EXCEPT !.chunks[id].physicsBodies = AddShapes(st, id, 1, w, {}).chunks[id].physicsBodies,
                 !.chunks[id].isLoaded = TRUE]

\* a load that does not ask whether the chunk is loaded already
addToWorldAgain(st, id, w, rej) ==
  [AddShapes(st, id, 1, w, rej) EXCEPT !.chunks[id].isLoaded = TRUE]

addToWorld(st, id, w, rej) ==
  IF st.chunks[id].isLoaded THEN st
  ELSE [AddShapes(st, id, 1, w, rej) EXCEPT !.chunks[id].isLoaded = TRUE]

\* the forEach over this.physicsBodies, from body k on
RECURSIVE RemoveBodies(_, _, _, _)
RemoveBodies(st, id, k, w) ==
  LET bodies == st.chunks[id].physicsBodies IN
  IF k > Len(bodies) THEN st
  ELSE RemoveBodies([st EXCEPT !.wb[w] = @ \ {bodies[k]},
                               !.calls = Append(@, <<"removeBody", w, bodies[k], TRUE>>)],
                    id, k + 1, w)

\* an unload that leaves the handle list as it was
removeFromWorldKeepsList(st, id, w) ==
  IF ~st.chunks[id].isLoaded THEN st
  ELSE [RemoveBodies(st, id, 1, w) EXCEPT !.chunks[id].isLoaded = FALSE]

\* an unload that empties the shape list along with the handle list
removeFromWorldClearsShapes(st, id, w) ==
  IF ~st.chunks[id].isLoaded THEN st
  ELSE [RemoveBodies(st, id, 1, w) EXCEPT !.chunks[id].physicsBodies = <<>>,
                                          !.chunks[id].trimeshes = <<>>,
                                          !.chunks[id].isLoaded = FALSE]

removeFromWorld(st, id, w) ==
  IF ~st.chunks[id].isLoaded THEN st
  ELSE [RemoveBodies(st, id, 1, w) EXCEPT !.chunks[id].physicsBodies = <<>>,
                                          !.chunks[id].isLoaded = FALSE]

-----------------------------------------------------------------------------
(* PhysicsManager.updateChunks *)

\* a load test that leaves out the chunks exactly loadRadius away
ShouldLoadStrict(dd, chunk, c) ==
  c.loadRadius >= 0 /\ dd < 4 * c.loadRadius * c.loadRadius /\ ~chunk.isLoaded

\* distance <= this.loadRadius && !chunk.isLoaded
ShouldLoad(dd, chunk, c) == DistLE(dd, c.loadRadius) /\ ~chunk.isLoaded

\* an unload test that compares with the load radius: no hysteresis band
ShouldUnloadAtLoadRadius(dd, chunk, c) == ~DistLE(dd, c.loadRadius) /\ chunk.isLoaded

\* else: distance > this.unloadRadius && chunk.isLoaded
ShouldUnload(dd, chunk, c) == ~DistLE(dd, c.unloadRadius) /\ chunk.isLoaded

\* a visit that loads a chunk only while the world holds no body yet
UpdateChunkWhileWorldEmpty(st, id, p, c, w, rej) ==
  LET chunk == st.chunks[id]
      dd    == getDistanceToPoint2Sq(chunk.aabb, p)
  IN  IF ShouldLoad(dd, chunk, c) /\ st.wb[w] = {} THEN addToWorld(st, id, w, rej)
      ELSE IF ShouldUnload(dd, chunk, c) THEN removeFromWorld(st, id, w)
      ELSE st

\* the body of this.chunks.forEach for one chunk
UpdateChunk(st, id, p, c, w, rej) ==
  LET chunk == st.chunks[id]
      dd    == getDistanceToPoint2Sq(chunk.aabb, p)
  IN  IF ShouldLoad(dd, chunk, c) THEN addToWorld(st, id, w, rej)
      ELSE IF ShouldUnload(dd, chunk, c) THEN removeFromWorld(st, id, w)
      ELSE st

\* this.chunks.forEach, in the Map's order, from the n-th key on
RECURSIVE UpdateFrom(_, _, _, _, _, _, _)
UpdateFrom(st, order, n, p, c, w, rej) ==
  IF n > Len(order) THEN st
  ELSE UpdateFrom(UpdateChunk(st, order[n], p, c, w, rej), order, n + 1, p, c, w, rej)

\* an update that turns to a world of its own when none is set
updateChunksInSomeWorld(st, order, p, c, w, rej) ==
  UpdateFrom(st, order, 1, p, c, IF w = NULL THEN "w1" ELSE w, rej)

updateChunks(st, order, p, c, w, rej) ==
  IF w = NULL THEN st                       \* warn, return
  ELSE UpdateFrom(st, order, 1, p, c, w, rej)

\* PhysicsManager.cleanup: the loaded chunks leave the world, from the n-th key on
RECURSIVE CleanupFrom(_, _, _, _)
CleanupFrom(st, order, n, w) ==
  IF n > Len(order) THEN st
  ELSE CleanupFrom(IF st.chunks[order[n]].isLoaded THEN removeFromWorld(st, order[n], w) ELSE st,
                   order, n + 1, w)

-----------------------------------------------------------------------------
(* src/src/LevelManager.js: LevelChunk, its tables and their ASCII form.     *)
(* A table of numbers is given as lines of tokens, a token being what stands *)
(* between two runs of white space; the table of objects is given as lines   *)
(* of characters.                                                            *)

HeightGridSize == 16     \* the height tables are 16 x 16
BlockGridSize == 8       \* the texture and object tables, and the cells, are 8 x 8
WallThreshold == 4       \* a height difference above it makes a wall

HeightIndex == 0..(HeightGridSize - 1)
BlockIndex == 0..(BlockGridSize - 1)

\* the tokens: a decimal numeral of n (with or without leading zeros, with or
\* without a sign), a numeral followed by other characters ("2x", "1.9"),
\* other text ("x"), and the empty string
Num(n) == <<"num", n>>
NumThenJunk(n) == <<"numjunk", n>>
Junk == <<"junk">>
EmptyToken == <<"empty">>

\* the result of parseInt: a number n is <<n>>, and NaN is
NaN == <<>>

\* parseInt(token): the leading numeral, NaN when there is none
parseInt(token) == IF token[1] \in {"num", "numjunk"} THEN <<token[2]>> ELSE NaN

\* v || 0: NaN and 0 are falsy
OrZero(v) == IF v = NaN THEN 0 ELSE v[1]

\* a line of characters is blank when it holds spaces only
IsBlank(chars) == \A i \in 1..Len(chars) : chars[i] = " "

\* line.trim() on a line of characters
TrimChars(chars) ==
  IF IsBlank(chars) THEN <<>>
  ELSE LET solid == { i \in 1..Len(chars) : chars[i] # " " }
           first == CHOOSE i \in solid : \A j \in solid : i <= j
           last  == CHOOSE i \in solid : \A j \in solid : j <= i
       IN  SubSeq(chars, first, last)

\* text.trim().split('\n'), solid being the places of the lines that are not
\* blank: the blank lines before the first and after the last of them go, and
\* what is left of a text that is all blank is one empty line
TrimSplit(lines, solid) ==
  IF solid = {} THEN << <<>> >>
  ELSE LET first == CHOOSE i \in solid : \A j \in solid : i <= j
           last  == CHOOSE i \in solid : \A j \in solid : j <= i
       IN  SubSeq(lines, first, last)

\* line.trim().split(/\s+/) on a line of tokens: an empty line is one empty token
SplitTokens(tokens) == IF tokens = <<>> THEN <<EmptyToken>> ELSE tokens

\* one of the four numeric parsing loops: the entries the text has, up to size
\* rows and columns, are parsed into table; the others stay as they are
ParseTable(table, text, size) ==
  LET lines == TrimSplit(text, { i \in 1..Len(text) : Len(text[i]) > 0 })
  IN  [y \in 0..(size - 1) |->
        [x \in 0..(size - 1) |->
          IF y < Len(lines) /\ x < Len(SplitTokens(lines[y + 1]))
          THEN OrZero(parseInt(SplitTokens(lines[y + 1])[x + 1]))
          ELSE table[y][x]]]

\* ['C', 'S', 'L'].includes(char) ? char : ' '
ObjectTag(char) == IF char \in {"C", "S", "L"} THEN char ELSE " "

\* the parsing loop of the objects
ParseObjects(table, text) ==
  LET lines == TrimSplit(text, { i \in 1..Len(text) : ~IsBlank(text[i]) })
  IN  [y \in BlockIndex |->
        [x \in BlockIndex |->
          IF y < Len(lines) /\ x < Len(TrimChars(lines[y + 1]))
          THEN ObjectTag(TrimChars(lines[y + 1])[x + 1])
          ELSE table[y][x]]]

\* new LevelChunk(chunkX, chunkZ, chunkSize), with initializeEmptyChunk
LevelChunk(chunkX, chunkZ, chunkSize) ==
  [chunkX       |-> chunkX,
   chunkZ       |-> chunkZ,
   chunkSize    |-> chunkSize,
   heightBase   |-> [y \in HeightIndex |-> [x \in HeightIndex |-> 0]],
   heightOffset |-> [y \in HeightIndex |-> [x \in HeightIndex |-> 0]],
   sideTextures |-> [y \in BlockIndex |-> [x \in BlockIndex |-> 0]],
   topTextures  |-> [y \in BlockIndex |-> [x \in BlockIndex |-> 0]],
   objects      |-> [y \in BlockIndex |-> [x \in BlockIndex |-> " "]],
   geometry     |-> <<>>,
   trimeshes    |-> <<>>,
   aabb         |-> <<>>,                 \* null; <<box>> once there is a box
   isLoaded     |-> FALSE]

\* LevelChunk.loadFromASCII
loadFromASCII(chunk, heightBaseASCII, heightOffsetASCII, sideTexturesASCII, topTexturesASCII, objectsASCII) ==
  [chunk EXCEPT
     !.heightBase   = ParseTable(@, heightBaseASCII, HeightGridSize),
     !.heightOffset = ParseTable(@, heightOffsetASCII, HeightGridSize),
     !.sideTextures = ParseTable(@, sideTexturesASCII, BlockGridSize),
     !.topTextures  = ParseTable(@, topTexturesASCII, BlockGridSize),
     !.objects      = ParseObjects(@, objectsASCII)]

\* LevelChunk.getBlockHeight
getBlockHeight(chunk, x, y) ==
  IF x < 0 \/ x >= HeightGridSize \/ y < 0 \/ y >= HeightGridSize THEN 0
  ELSE chunk.heightBase[y][x] + chunk.heightOffset[y][x]

-----------------------------------------------------------------------------
(* TextureManager and LevelChunk.generateGeometry.  A material is told by    *)
(* its texture index; a mesh is a record of what the code sets on it.  The   *)
(* lengths that are not whole (a mesh centred at x + 0.5, an object 0.1      *)
(* high) are kept in twentieths: position20 and size20 are twenty times the  *)
(* mesh's position and the size of its geometry.  The vertices and indices   *)
(* of a slope are the arrays the code fills, as they are.                    *)

Twentieths == 20

\* new TextureManager()
TextureManager == [sideMaterials |-> {}, topMaterials |-> {}]

\* createFallbackMaterials: the materials 0 .. 99
createFallbackMaterials(tm) ==
  [tm EXCEPT !.sideMaterials = @ \cup (0..99), !.topMaterials = @ \cup (0..99)]

\* getSideMaterial, getTopMaterial: the material is made when it is not there
getSideMaterial(tm, textureIndex) == [tm EXCEPT !.sideMaterials = @ \cup {textureIndex}]
getTopMaterial(tm, textureIndex) == [tm EXCEPT !.topMaterials = @ \cup {textureIndex}]

Max4(a, b, c, d) == Max2(Max2(a, b), Max2(c, d))
Min4(a, b, c, d) == Min2(Min2(a, b), Min2(c, d))

NoVertices == <<>>

\* what every mesh record has
Mesh(name, type, position20, size20, vertices, indices, userData) ==
  [name |-> name, type |-> type, position20 |-> position20, size20 |-> size20,
   vertices |-> vertices, indices |-> indices, normals |-> <<>>, userData |-> userData]

\* generateWallBlock: one box of the maximum height; g is the group and the
\* texture manager so far
generateWallBlock(g, worldX, worldZ, h00, h10, h01, h11, sideTexture, topTexture, id) ==
  LET maxHeight == Max4(h00, h10, h01, h11)
      mesh == Mesh(<<"wall", worldX, worldZ>>, "wall",
                   Vec(Twentieths * worldX + 10, 10 * maxHeight, Twentieths * worldZ + 10),
                   Vec(Twentieths, Twentieths * maxHeight, Twentieths),
                   NoVertices, <<>>,
                   [type |-> "wall", chunkId |-> id, cornerHeights |-> <<h00, h10, h01, h11>>,
                    sideTexture |-> sideTexture, topTexture |-> topTexture])
  IN  [geometry |-> Append(g.geometry, mesh), tm |-> getSideMaterial(g.tm, sideTexture)]

\* a face table whose top is wound the other way
SlopeFacesTopTurned ==
  << <<0, 2, 1>>, <<0, 3, 2>>,
     <<4, 6, 5>>, <<4, 7, 6>>,
     <<0, 1, 5>>, <<0, 5, 4>>,
     <<1, 2, 6>>, <<1, 6, 5>>,
     <<2, 3, 7>>, <<2, 7, 6>>,
     <<3, 0, 4>>, <<3, 4, 7>> >>

\* the face table of a slope block
SlopeFaces ==
  << <<0, 2, 1>>, <<0, 3, 2>>,      \* bottom
     <<4, 5, 6>>, <<4, 6, 7>>,      \* top
     <<0, 1, 5>>, <<0, 5, 4>>,      \* front
     <<1, 2, 6>>, <<1, 6, 5>>,      \* right
     <<2, 3, 7>>, <<2, 7, 6>>,      \* back
     <<3, 0, 4>>, <<3, 4, 7>> >>    \* left

\* indices.push(...face) for every face
RECURSIVE FlattenFaces(_, _)
FlattenFaces(faces, i) == IF i > Len(faces) THEN <<>> ELSE faces[i] \o FlattenFaces(faces, i + 1)

\* the 8 vertices of a slope block: 4 at ground level, 4 at the corner heights
SlopeVertices(worldX, worldZ, h00, h10, h01, h11) ==
  << worldX, 0, worldZ,
     worldX + 1, 0, worldZ,
     worldX + 1, 0, worldZ + 1,
     worldX, 0, worldZ + 1,
     worldX, h00, worldZ,
     worldX + 1, h10, worldZ,
     worldX + 1, h11, worldZ + 1,
     worldX, h01, worldZ + 1 >>

\* new THREE.Vector3(vertices[i * 3], vertices[i * 3 + 1], vertices[i * 3 + 2])
VertexAt(vertices, i) == Vec(vertices[3 * i + 1], vertices[3 * i + 2], vertices[3 * i + 3])

\* subVectors and crossVectors
SubVectors(a, b) == Vec(a[1] - b[1], a[2] - b[2], a[3] - b[3])
CrossVectors(a, b) ==
  Vec(a[2] * b[3] - a[3] * b[2], a[3] * b[1] - a[1] * b[3], a[1] * b[2] - a[2] * b[1])

\* the normal of a face as it is before normalize(), which keeps its direction
FaceNormal(vertices, face) ==
  CrossVectors(SubVectors(VertexAt(vertices, face[2]), VertexAt(vertices, face[1])),
               SubVectors(VertexAt(vertices, face[3]), VertexAt(vertices, face[1])))

\* normals: the normal of every face, pushed once for each of its three vertices
SlopeNormals(vertices, faces) ==
  [i \in 1..(3 * Len(faces)) |-> FaceNormal(vertices, faces[((i - 1) \div 3) + 1])]

\* generateSlopeBlock
generateSlopeBlock(g, worldX, worldZ, h00, h10, h01, h11, sideTexture, topTexture, id) ==
  LET maxHeight == Max4(h00, h10, h01, h11)
      vertices == SlopeVertices(worldX, worldZ, h00, h10, h01, h11)
      mesh == [Mesh(<<"slope", worldX, worldZ>>, "slope", Vec(0, 0, 0), Vec(0, 0, 0),
                    vertices, FlattenFaces(SlopeFaces, 1),
                    [type |-> "slope", chunkId |-> id, cornerHeights |-> <<h00, h10, h01, h11>>,
                     sideTexture |-> sideTexture, topTexture |-> topTexture])
                 EXCEPT !.normals = SlopeNormals(vertices, SlopeFaces)]
  IN  IF maxHeight <= 0 THEN g
      ELSE [geometry |-> Append(g.geometry, mesh), tm |-> getTopMaterial(g.tm, topTexture)]

\* a classification with the threshold inside the walls
IsWallFromThreshold(heightDiff) == heightDiff >= WallThreshold

\* isWall = heightDiff > 4
IsWall(heightDiff) == heightDiff > WallThreshold

\* generateBlock
generateBlock(g, worldX, worldZ, h00, h10, h01, h11, sideTexture, topTexture, id) ==
  LET maxHeight  == Max4(h00, h10, h01, h11)
      heightDiff == Max4(h00, h10, h01, h11) - Min4(h00, h10, h01, h11)
  IN  IF maxHeight <= 0 THEN g
      ELSE IF IsWall(heightDiff)
           THEN generateWallBlock(g, worldX, worldZ, h00, h10, h01, h11, sideTexture, topTexture, id)
           ELSE generateSlopeBlock(g, worldX, worldZ, h00, h10, h01, h11, sideTexture, topTexture, id)

\* the sizes of the three decorations, in twentieths: an octahedron of radius
\* 0.3, a box 0.6 x 0.1 x 0.6, a box 0.8 x 0.2 x 0.8
ObjectSize20(objectType) ==
  CASE objectType = "C" -> Vec(12, 12, 12)
    [] objectType = "S" -> Vec(12, 2, 12)
    [] objectType = "L" -> Vec(16, 4, 16)

\* the first part of the name of a decoration
ObjectName(objectType) ==
  CASE objectType = "C" -> "crystal"
    [] objectType = "S" -> "switch"
    [] objectType = "L" -> "lift"

\* generateObject
generateObject(g, worldX, worldZ, height, objectType, id) ==
  IF objectType = " " THEN g
  ELSE IF objectType \notin {"C", "S", "L"} THEN g      \* default: return
  ELSE [g EXCEPT !.geometry =
          Append(@, Mesh(<<ObjectName(objectType), worldX, worldZ>>, "object",
                         Vec(Twentieths * worldX + 10, Twentieths * height + 4,
                             Twentieths * worldZ + 10),
                         ObjectSize20(objectType), NoVertices, <<>>,
                         [type |-> "object", objectType |-> objectType, chunkId |-> id]))]

\* the cells of two loops that stop one cell short
LevelCellsOneShort ==
  [n \in 1..((BlockGridSize - 1) * (BlockGridSize - 1)) |->
     [x |-> (n - 1) % (BlockGridSize - 1), z |-> (n - 1) \div (BlockGridSize - 1)]]

\* the cells in the order of the two loops: z outer, x inner
LevelCells == [n \in 1..(BlockGridSize * BlockGridSize) |->
                 [x |-> (n - 1) % BlockGridSize, z |-> (n - 1) \div BlockGridSize]]

\* a skip test that lets the cells of height 0 through
SkipsBelowZero(maxHeight) == maxHeight < 0

\* maxHeight === 0: continue
SkipsCell(maxHeight) == maxHeight = 0

\* the body of the two loops of generateGeometry for one cell
GenerateCell(chunk, g, cell) ==
  LET x == cell.x
      z == cell.z
      h00 == getBlockHeight(chunk, 2 * x, 2 * z)
      h10 == getBlockHeight(chunk, 2 * x + 1, 2 * z)
      h01 == getBlockHeight(chunk, 2 * x, 2 * z + 1)
      h11 == getBlockHeight(chunk, 2 * x + 1, 2 * z + 1)
      maxHeight == Max4(h00, h10, h01, h11)
      worldX == chunk.chunkX * chunk.chunkSize + x
      worldZ == chunk.chunkZ * chunk.chunkSize + z
      id == <<chunk.chunkX, chunk.chunkZ>>
  IN  IF SkipsCell(maxHeight) THEN g
      ELSE generateObject(
             generateBlock(g, worldX, worldZ, h00, h10, h01, h11,
                           chunk.sideTextures[z][x], chunk.topTextures[z][x], id),
             worldX, worldZ, maxHeight, chunk.objects[z][x], id)

\* the two loops of generateGeometry.  A cell adds at most a block and an
\* object to the group, and what it adds does not depend on what is there:
\* the group is what the cells add, in the order of the cells, and the
\* materials are those every cell asks for
GenerateCells(chunk, tm) ==
  LET perCell == [n \in 1..Len(LevelCells) |->
                    GenerateCell(chunk, [geometry |-> <<>>, tm |-> tm], LevelCells[n])]
      slots == [i \in 1..(2 * Len(LevelCells)) |->
                  LET added == perCell[(i + 1) \div 2].geometry
                      j == 2 - (i % 2)
                  IN  IF j <= Len(added) THEN <<added[j]>> ELSE <<>>]
      filled == SelectSeq(slots, LAMBDA s : Len(s) > 0)
  IN  [geometry |-> [i \in 1..Len(filled) |-> filled[i][1]],
       tm |-> [sideMaterials |-> UNION { perCell[n].tm.sideMaterials : n \in 1..Len(LevelCells) },
               topMaterials  |-> UNION { perCell[n].tm.topMaterials : n \in 1..Len(LevelCells) }]]

\* the least and the greatest number of a set that is not empty
Least(S) == CHOOSE v \in S : \A w \in S : v <= w
Greatest(S) == CHOOSE v \in S : \A w \in S : v >= w

\* the vertex with index i of a mesh with vertices
MeshVertex(mesh, i) ==
  Vec(mesh.vertices[3 * i + 1], mesh.vertices[3 * i + 2], mesh.vertices[3 * i + 3])

\* new THREE.Box3().setFromObject(mesh), in twentieths: the box of the
\* vertices of a slope, the box of the given size about the position of a
\* wall or an object
MeshBox20(mesh) ==
  IF mesh.vertices # NoVertices
  THEN LET n == Len(mesh.vertices) \div 3
       IN  Box3([k \in 1..3 |-> Twentieths * Least({ MeshVertex(mesh, i)[k] : i \in 0..(n - 1) })],
                [k \in 1..3 |-> Twentieths * Greatest({ MeshVertex(mesh, i)[k] : i \in 0..(n - 1) })])
  ELSE LET lo == [k \in 1..3 |-> 2 * mesh.position20[k] - mesh.size20[k]]
           hi == [k \in 1..3 |-> 2 * mesh.position20[k] + mesh.size20[k]]
       IN  Box3([k \in 1..3 |-> Min2(lo[k], hi[k]) \div 2], [k \in 1..3 |-> Max2(lo[k], hi[k]) \div 2])

\* new THREE.Box3().setFromObject(group) of a group that has children
GroupBox20(geometry) ==
  LET boxes == [i \in 1..Len(geometry) |-> MeshBox20(geometry[i])]
  IN  Box3([k \in 1..3 |-> Least({ boxes[i].min[k] : i \in 1..Len(geometry) })],
           [k \in 1..3 |-> Greatest({ boxes[i].max[k] : i \in 1..Len(geometry) })])

\* a clear that leaves the children of the group where they are
GroupKept(geometry) == geometry

\* this.geometry.clear(): the group has no children left
GroupClear(geometry) == <<>>

\* LevelChunk.generateGeometry: the group is emptied and filled again, and the
\* bounding box is taken
generateGeometry(chunk, tm) ==
  LET g == GenerateCells(chunk, tm)
      geometry == GroupClear(chunk.geometry) \o g.geometry
  IN  [chunk |-> [chunk EXCEPT !.geometry = geometry,
                               !.aabb = IF Len(geometry) > 0 THEN <<GroupBox20(geometry)>>
                                        ELSE <<EmptyBox>>],
       tm    |-> g.tm]

-----------------------------------------------------------------------------
(* LevelChunk.generateTrimeshes and LevelManager.  A chunk is known by its   *)
(* coordinates <<chunkX, chunkZ>>, which the code writes chunk_X_Z; order is *)
(* the order of insertion of the Map, which values() follows.  lm is the     *)
(* manager an operation works on, and its result is the manager after it.    *)

DefaultLevelChunkSize == 8

\* LevelChunk.generateTrimeshes: one box per mesh of the group, in the order
\* of the group's children; the half extents of a box are half its size and
\* its position is the centre, both kept doubled (in fortieths)
generateLevelTrimeshes(chunk) ==
  [chunk EXCEPT !.trimeshes =
     [i \in 1..Len(chunk.geometry) |->
        [halfExtents40 |-> getSize(MeshBox20(chunk.geometry[i])),
         position40    |-> getCenter2(MeshBox20(chunk.geometry[i])),
         name          |-> chunk.geometry[i].name,
         type          |-> chunk.geometry[i].userData.type]]]

\* new LevelManager(options)
LevelManager(options) ==
  [chunkSize      |-> OrDefault(options.chunkSize, DefaultLevelChunkSize),
   chunks         |-> <<>>,
   order          |-> <<>>,
   textureManager |-> TextureManager,
   isInitialized  |-> FALSE]

\* the options of the exported singleton, and none
levelManagerOptions == { [chunkSize |-> 8], [chunkSize |-> 0] }

\* initialize: loadTextureAtlas makes the fallback materials
initialize(lm) ==
  [lm EXCEPT !.textureManager = createFallbackMaterials(@), !.isInitialized = TRUE]

\* createChunk: the chunk that is there, or a new empty one
createChunk(lm, id) ==
  IF id \in DOMAIN lm.chunks THEN lm
  ELSE [lm EXCEPT !.chunks = (id :> LevelChunk(id[1], id[2], lm.chunkSize)) @@ @,
                  !.order = Append(@, id)]

\* loadChunkFromASCII; text holds the five tables
loadChunkFromASCII(lm, id, text) ==
  [createChunk(lm, id) EXCEPT
     !.chunks[id] = loadFromASCII(@, text.heightBase, text.heightOffset, text.sideTextures,
                                  text.topTextures, text.objects)]

\* generateChunkGeometry: nothing for a chunk that is not there or a manager
\* that is not initialized
generateChunkGeometry(lm, id) ==
  IF id \notin DOMAIN lm.chunks THEN lm
  ELSE IF ~lm.isInitialized THEN lm
  ELSE LET r == generateGeometry(lm.chunks[id], lm.textureManager)
       IN  [lm EXCEPT !.chunks[id] = r.chunk, !.textureManager = r.tm]

\* generateChunkTrimeshes
generateChunkTrimeshes(lm, id) ==
  IF id \notin DOMAIN lm.chunks THEN lm
  ELSE [lm EXCEPT !.chunks[id] = generateLevelTrimeshes(@)]

\* getAllTrimeshes, from chunk n of the order on: the trimeshes of a chunk are
\* generated when it has none; all is the list returned
RECURSIVE AllTrimeshesFrom(_, _, _)
AllTrimeshesFrom(lm, all, n) ==
  IF n > Len(lm.order) THEN [lm |-> lm, all |-> all]
  ELSE LET id == lm.order[n]
           l1 == IF Len(lm.chunks[id].trimeshes) = 0
                 THEN [lm EXCEPT !.chunks[id] = generateLevelTrimeshes(@)]
                 ELSE lm
       IN  AllTrimeshesFrom(l1, all \o l1.chunks[id].trimeshes, n + 1)

getAllTrimeshes(lm) == AllTrimeshesFrom(lm, <<>>, 1)

\* createExampleLevel: heightBase (the template begins with a line break)
ExampleHeightBase ==
  << <<>>,
     << Num(0), Num(0), Num(0), Num(0), Num(3), Num(3), Num(3), Num(3), Num(3), Num(3), Num(3), Num(3), Num(3), Num(3), Num(3), Num(3) >>,
     << Num(0), Num(0), Num(0), Num(0), Num(1), Num(1), Num(1), Num(1), Num(1), Num(1), Num(1), Num(1), Num(1), Num(1), Num(1), Num(3) >>,
     << Num(0), Num(0), Num(0), Num(0), Num(1), Num(1), Num(1), Num(1), Num(1), Num(1), Num(1), Num(1), Num(1), Num(1), Num(1), Num(3) >>,
     << Num(3), Num(2), Num(1), Num(1), Num(1), Num(1), Num(1), Num(1), Num(1), Num(1), Num(1), Num(1), Num(1), Num(1), Num(1), Num(3) >>,
     << Num(3), Num(3), Num(1), Num(1), Num(1), Num(1), Num(1), Num(2), Num(2), Num(1), Num(1), Num(1), Num(1), Num(1), Num(1), Num(3) >>,
     << Num(3), Num(3), Num(1), Num(1), Num(1), Num(1), Num(2), Num(2), Num(2), Num(2), Num(1), Num(1), Num(1), Num(1), Num(1), Num(3) >>,
     << Num(3), Num(3), Num(1), Num(1), Num(1), Num(2), Num(2), Num(2), Num(2), Num(2), Num(2), Num(1), Num(1), Num(1), Num(1), Num(3) >>,
     << Num(3), Num(3), Num(1), Num(1), Num(1), Num(1), Num(2), Num(2), Num(2), Num(2), Num(1), Num(1), Num(1), Num(1), Num(1), Num(3) >>,
     << Num(3), Num(3), Num(1), Num(1), Num(1), Num(1), Num(1), Num(2), Num(2), Num(1), Num(1), Num(1), Num(1), Num(1), Num(1), Num(3) >>,
     << Num(3), Num(3), Num(1), Num(1), Num(1), Num(1), Num(1), Num(1), Num(1), Num(1), Num(1), Num(1), Num(1), Num(1), Num(1), Num(3) >>,
     << Num(3), Num(3), Num(1), Num(1), Num(1), Num(1), Num(1), Num(1), Num(1), Num(1), Num(1), Num(1), Num(1), Num(1), Num(1), Num(3) >>,
     << Num(3), Num(3), Num(1), Num(1), Num(1), Num(1), Num(1), Num(1), Num(1), Num(1), Num(1), Num(1), Num(1), Num(1), Num(1), Num(3) >>,
     << Num(0), Num(0), Num(0), Num(0), Num(0), Num(0), Num(0), Num(0), Num(0), Num(0), Num(0), Num(0), Num(0), Num(0), Num(0), Num(0) >>,
     << Num(0), Num(0), Num(0), Num(0), Num(0), Num(0), Num(0), Num(0), Num(0), Num(0), Num(0), Num(0), Num(0), Num(0), Num(0), Num(0) >>,
     << Num(0), Num(0), Num(0), Num(0), Num(0), Num(0), Num(0), Num(0), Num(0), Num(0), Num(0), Num(0), Num(0), Num(0), Num(0), Num(0) >>,
     << Num(0), Num(0), Num(0), Num(0), Num(0), Num(0), Num(0), Num(0), Num(0), Num(0), Num(0), Num(0), Num(0), Num(0), Num(0), Num(0) >> >>

\* createExampleLevel: heightOffset
ExampleHeightOffset ==
  << <<>>,
     << Num(1), Num(1), Num(0), Num(0), Num(0), Num(0), Num(0), Num(0), Num(0), Num(0), Num(0), Num(0), Num(0), Num(0), Num(0), Num(0) >>,
     << Num(1), Num(1), Num(0), Num(0), Num(0), Num(0), Num(0), Num(0), Num(0), Num(0), Num(0), Num(0), Num(0), Num(0), Num(0), Num(0) >>,
     << Num(0), Num(0), Num(0), Num(0), Num(0), Num(1), Num(1), Num(1), Num(1), Num(1), Num(1), Num(0), Num(0), Num(0), Num(0), Num(0) >>,
     << Num(0), Num(0), Num(0), Num(1), Num(1), Num(1), Num(1), Num(1), Num(1), Num(1), Num(1), Num(1), Num(1), Num(0), Num(0), Num(0) >>,
     << Num(0), Num(0), Num(0), Num(1), Num(1), Num(1), Num(1), Num(0), Num(0), Num(1), Num(1), Num(1), Num(1), Num(0), Num(0), Num(0) >>,
     << Num(0), Num(0), Num(0), Num(1), Num(1), Num(1), Num(0), Num(0), Num(0), Num(0), Num(1), Num(1), Num(1), Num(0), Num(0), Num(0) >>,
     << Num(0), Num(0), Num(0), Num(1), Num(1), Num(0), Num(0), Num(0), Num(0), Num(0), Num(0), Num(1), Num(1), Num(0), Num(0), Num(0) >>,
     << Num(0), Num(0), Num(0), Num(1), Num(1), Num(1), Num(0), Num(0), Num(0), Num(0), Num(1), Num(1), Num(1), Num(0), Num(0), Num(0) >>,
     << Num(0), Num(0), Num(0), Num(1), Num(1), Num(1), Num(1), Num(0), Num(0), Num(1), Num(1), Num(1), Num(1), Num(0), Num(0), Num(0) >>,
     << Num(0), Num(0), Num(0), Num(1), Num(1), Num(1), Num(1), Num(1), Num(1), Num(1), Num(1), Num(1), Num(1), Num(0), Num(0), Num(0) >>,
     << Num(0), Num(0), Num(0), Num(0), Num(0), Num(1), Num(1), Num(1), Num(1), Num(1), Num(1), Num(0), Num(0), Num(0), Num(0), Num(0) >>,
     << Num(0), Num(0), Num(0), Num(0), Num(0), Num(0), Num(0), Num(0), Num(0), Num(0), Num(0), Num(0), Num(0), Num(0), Num(0), Num(0) >>,
     << Num(0), Num(0), Num(0), Num(0), Num(0), Num(0), Num(0), Num(0), Num(0), Num(0), Num(0), Num(0), Num(0), Num(0), Num(0), Num(0) >>,
     << Num(0), Num(0), Num(0), Num(0), Num(0), Num(0), Num(0), Num(0), Num(0), Num(0), Num(0), Num(0), Num(0), Num(0), Num(0), Num(0) >>,
     << Num(2), Num(2), Num(2), Num(0), Num(1), Num(1), Num(1), Num(0), Num(0), Num(0), Num(0), Num(0), Num(0), Num(0), Num(0), Num(0) >>,
     << Num(2), Num(2), Num(2), Num(1), Num(1), Num(1), Num(1), Num(0), Num(0), Num(0), Num(0), Num(0), Num(0), Num(0), Num(0), Num(0) >> >>

\* createExampleLevel: sideTextures
ExampleSideTextures ==
  << <<>>,
     << Num(1), Num(2), Num(3), Num(4), Num(5), Num(6), Num(7), Num(8) >>,
     << Num(9), Num(10), Num(11), Num(12), Num(13), Num(14), Num(15), Num(16) >>,
     << Num(17), Num(18), Num(19), Num(20), Num(21), Num(22), Num(23), Num(24) >>,
     << Num(25), Num(26), Num(27), Num(28), Num(29), Num(30), Num(31), Num(32) >>,
     << Num(33), Num(34), Num(35), Num(36), Num(37), Num(38), Num(39), Num(40) >>,
     << Num(41), Num(42), Num(43), Num(44), Num(45), Num(46), Num(47), Num(48) >>,
     << Num(49), Num(50), Num(51), Num(52), Num(53), Num(54), Num(55), Num(56) >>,
     << Num(57), Num(58), Num(59), Num(60), Num(61), Num(62), Num(63), Num(64) >> >>

\* createExampleLevel: topTextures
ExampleTopTextures ==
  << <<>>,
     << Num(65), Num(66), Num(67), Num(68), Num(69), Num(70), Num(71), Num(72) >>,
     << Num(73), Num(74), Num(75), Num(76), Num(77), Num(78), Num(79), Num(80) >>,
     << Num(81), Num(82), Num(83), Num(84), Num(85), Num(86), Num(87), Num(88) >>,
     << Num(89), Num(90), Num(91), Num(92), Num(93), Num(94), Num(95), Num(96) >>,
     << Num(97), Num(98), Num(99), Num(0), Num(1), Num(2), Num(3), Num(4) >>,
     << Num(5), Num(6), Num(7), Num(8), Num(9), Num(10), Num(11), Num(12) >>,
     << Num(13), Num(14), Num(15), Num(16), Num(17), Num(18), Num(19), Num(20) >>,
     << Num(21), Num(22), Num(23), Num(24), Num(25), Num(26), Num(27), Num(28) >> >>

\* createExampleLevel: objects, character by character
ExampleObjects ==
  << <<>>,
     << "C", " ", " ", " ", "S", " ", " ", " ", "L" >>,
     << " ", " ", "C", " ", " ", " ", "S", " ", " " >>,
     << " ", " ", " ", " ", "L", " ", " ", " ", "C" >>,
     << "S", " ", " ", " ", " ", " ", "L", " ", " " >>,
     << " ", " ", "L", " ", " ", " ", "C", " ", " " >>,
     << "C", " ", " ", " ", "S", " ", " ", " ", " " >>,
     << " ", " ", "S", " ", " ", " ", "L", " ", " " >>,
     << "L", " ", " ", " ", "C", " ", " ", " ", "S" >> >>

ExampleLevel ==
  [heightBase |-> ExampleHeightBase, heightOffset |-> ExampleHeightOffset,
   sideTextures |-> ExampleSideTextures, topTextures |-> ExampleTopTextures,
   objects |-> ExampleObjects]

\* createExampleLevel
createExampleLevel(lm) ==
  generateChunkGeometry(loadChunkFromASCII(lm, <<0, 0>>, ExampleLevel), <<0, 0>>)

\* createTestLevel: the example level, or a platform that is not kept
createTestLevel(lm) == IF lm.isInitialized THEN createExampleLevel(lm) ELSE lm

\* the body createTrimesh makes of one entry
LevelBody(trimeshData) ==
  [halfExtents40 |-> trimeshData.halfExtents40, position40 |-> trimeshData.position40]

\* the platform of createTrimesh: a box (5, 0.5, 5) at (0, -0.5, 0)
PlatformBody == [halfExtents40 |-> Vec(200, 20, 200), position40 |-> Vec(0, -20, 0)]

\* createTrimesh: lm is the manager after the call, bodies the list returned
createTrimesh(lm) ==
  IF Cardinality(DOMAIN lm.chunks) > 0
  THEN LET r == getAllTrimeshes(lm)
       IN  [lm |-> r.lm, bodies |-> [i \in 1..Len(r.all) |-> LevelBody(r.all[i])]]
  ELSE [lm |-> lm, bodies |-> <<PlatformBody>>]

\* getStats: lm is the manager after the call, stats the summary returned
getStats(lm) ==
  LET r == getAllTrimeshes(lm)
  IN  [lm |-> r.lm,
       stats |-> [isInitialized |-> lm.isInitialized, totalTrimeshes |-> Len(r.all),
                  chunksLoaded |-> Cardinality(DOMAIN lm.chunks)]]

\* cleanup: the chunks and the materials go, isInitialized stays
levelCleanup(lm) ==
  [lm EXCEPT !.chunks = <<>>, !.order = <<>>, !.textureManager = TextureManager]

-----------------------------------------------------------------------------
(* src/unnamed/part_003: InputManager.  touchHandlers is a Map of Maps: an   *)
(* event type has the list of its handlers, each an id and a callback, in    *)
(* the order of insertion.  An id is a tuple: <<>> for none given (null),    *)
(* <<name>> for one the caller gives, <<eventType, now, serial>> for one the *)
(* manager makes of Date.now() and Math.random(), which is taken never to    *)
(* repeat: serial counts the ids made.  A callback is named by what it does  *)
(* when it is called: it returns or it throws.  A time is in milliseconds.   *)

NoId == <<>>

TapTime == 200
LongPressTime == 1000

\* new InputManager()
InputManager ==
  [touchHandlers |-> <<>>, gestureHandlers |-> <<>>, isPressed |-> FALSE,
   lastTouchPosition |-> [x |-> 0, y |-> 0], currentTouchPosition |-> [x |-> 0, y |-> 0],
   touchStartTime |-> 0]

\* this.touchHandlers.get(eventType), the empty list for none
HandlersOf(im, eventType) ==
  IF eventType \in DOMAIN im.touchHandlers THEN im.touchHandlers[eventType] ELSE <<>>

\* Map.set(handlerId, callback): a key that is there keeps its place
HandlerSet(handlers, handlerId, callback) ==
  IF \E k \in 1..Len(handlers) : handlers[k].id = handlerId
  THEN [k \in 1..Len(handlers) |->
          IF handlers[k].id = handlerId THEN [id |-> handlerId, callback |-> callback]
          ELSE handlers[k]]
  ELSE Append(handlers, [id |-> handlerId, callback |-> callback])

\* Map.delete(handlerId)
HandlerDelete(handlers, handlerId) == SelectSeq(handlers, LAMBDA h : h.id # handlerId)

\* id || `${eventType}_${Date.now()}_${Math.random()}`
HandlerId(eventType, id, now, serial) == IF id # NoId THEN id ELSE <<eventType, now, serial>>

\* on(eventType, callback, id): im is the manager after the call
on(im, eventType, callback, id, now, serial) ==
  LET handlerId == HandlerId(eventType, id, now, serial)
  IN  [im |-> [im EXCEPT !.touchHandlers =
                 (eventType :> HandlerSet(HandlersOf(im, eventType), handlerId, callback)) @@ @],
       returns |-> handlerId]

\* an off that deletes the handlers of the event type, all of them
offAll(im, eventType, handlerId) ==
  IF eventType \in DOMAIN im.touchHandlers
  THEN [im EXCEPT !.touchHandlers[eventType] = <<>>]
  ELSE im

\* off(eventType, handlerId)
off(im, eventType, handlerId) ==
  IF eventType \in DOMAIN im.touchHandlers
  THEN [im EXCEPT !.touchHandlers[eventType] = HandlerDelete(@, handlerId)]
  ELSE im

\* the callback throws when it is called
Throws(callback) == callback = "throws"

\* an error that leaves the handler where it is thrown
EscapesWhenThrown(callback) == Throws(callback)

\* try { callback(eventData) } catch (error) { console.error }: the error of
\* a callback goes no further
Escapes(callback) == FALSE

\* the forEach of trigger from handler n on: the calls made, in order, and
\* whether an error leaves the loop
RECURSIVE InvokeFrom(_, _, _, _)
InvokeFrom(handlers, n, eventType, eventData) ==
  IF n > Len(handlers) THEN [invoked |-> <<>>, thrown |-> FALSE]
  ELSE LET call == [eventType |-> eventType, id |-> handlers[n].id,
                    callback |-> handlers[n].callback, eventData |-> eventData]
       IN  IF Escapes(handlers[n].callback)
           THEN [invoked |-> <<call>>, thrown |-> TRUE]
           ELSE LET rest == InvokeFrom(handlers, n + 1, eventType, eventData)
                IN  [invoked |-> <<call>> \o rest.invoked, thrown |-> rest.thrown]

\* trigger(eventType, eventData)
trigger(im, eventType, eventData) == InvokeFrom(HandlersOf(im, eventType), 1, eventType, eventData)

\* { x: locationX || pageX, y: locationY || pageY }; a coordinate that is
\* not given is 0
TouchPosition(nativeEvent) ==
  [x |-> OrDefault(nativeEvent.locationX, nativeEvent.pageX),
   y |-> OrDefault(nativeEvent.locationY, nativeEvent.pageY)]

\* an event the manager emits: a type and the data handed to trigger
Emit(eventType, eventData) == [eventType |-> eventType, eventData |-> eventData]

\* handleTouchStart(event): im is the manager after the call, emitted the
\* events handed to trigger, in order
handleTouchStart(im, nativeEvent, now) ==
  LET position == TouchPosition(nativeEvent)
  IN  [im |-> [im EXCEPT !.isPressed = TRUE, !.touchStartTime = now,
                         !.lastTouchPosition = position, !.currentTouchPosition = position],
       emitted |-> << Emit("press", [position |-> position, timestamp |-> now,
                                     isPressed |-> TRUE]) >>]

\* handleTouchMove(event)
handleTouchMove(im, nativeEvent, now) ==
  IF ~im.isPressed THEN [im |-> im, emitted |-> <<>>]
  ELSE LET last == im.currentTouchPosition
           position == TouchPosition(nativeEvent)
       IN  [im |-> [im EXCEPT !.lastTouchPosition = last, !.currentTouchPosition = position],
            emitted |-> << Emit("move", [position |-> position, lastPosition |-> last,
                                         delta |-> [x |-> position.x - last.x,
                                                    y |-> position.y - last.y],
                                         timestamp |-> now, isPressed |-> TRUE]) >>]

\* the gesture of a touch that lasted touchDuration: a tap, a long press or none
Gesture(touchDuration) ==
  IF touchDuration < TapTime THEN <<"tap">>
  ELSE IF touchDuration > LongPressTime THEN <<"longpress">>
  ELSE <<>>

\* handleTouchEnd(event)
handleTouchEnd(im, nativeEvent, now) ==
  LET touchDuration == now - im.touchStartTime
      eventData == [position |-> TouchPosition(nativeEvent),
                    startPosition |-> im.lastTouchPosition, duration |-> touchDuration,
                    timestamp |-> now, isPressed |-> FALSE]
      gesture == Gesture(touchDuration)
  IN  [im |-> [im EXCEPT !.isPressed = FALSE],
       emitted |-> [k \in 1..Len(gesture) |-> Emit(gesture[k], eventData)]
                     \o << Emit("release", eventData) >>]

\* the calls trigger makes for the events of a list, from event n on
RECURSIVE TriggerAll(_, _, _)
TriggerAll(im, emitted, n) ==
  IF n > Len(emitted) THEN [invoked |-> <<>>, thrown |-> FALSE]
  ELSE LET first == trigger(im, emitted[n].eventType, emitted[n].eventData)
       IN  IF first.thrown THEN first
           ELSE LET rest == TriggerAll(im, emitted, n + 1)
                IN  [invoked |-> first.invoked \o rest.invoked, thrown |-> rest.thrown]

\* cleanup()
inputCleanup(im) == [im EXCEPT !.touchHandlers = <<>>, !.gestureHandlers = <<>>]

-----------------------------------------------------------------------------
(* src/unnamed/part_004: AccelerometerManager.  A number is kept to the      *)
(* hundredth, as an integer of hundredths, and a product or quotient is      *)
(* rounded towards 0; sensitivity is in tenths.  A vector is <<x, y, z>>.    *)
(* The sensor (Accelerometer of expo-sensors) is the list of its listeners,  *)
(* in the order they were added: a listener has the id of its subscription,  *)
(* its kind (the listener of a calibration or handleAccelerometerUpdate)     *)
(* and, for a calibration, the call of start that made it.  A call of start  *)
(* is at the await of isAvailable, at the await of calibrateReference with   *)
(* the samples it has counted and summed, or done.                           *)

TotalSamples == 30

DefaultSensitivity == 40
DefaultUpdateInterval == 16
DefaultSmoothingFactor == 10
DefaultMaxGravity == 2000
DefaultGravityY == -982
MinimumDownward == -100

\* a quotient rounded towards 0
Trunc(a, b) == IF a >= 0 THEN a \div b ELSE -((-a) \div b)

\* the least integer whose square is n or more
CeilSqrt(n) == CHOOSE r \in 0..n : r * r >= n /\ (r = 0 \/ (r - 1) * (r - 1) < n)

\* the square of Vector3.length()
LengthSq(v) == v[1] * v[1] + v[2] * v[2] + v[3] * v[3]

\* normalize().multiplyScalar(maxGravity), rounded towards the origin
ClampLength(v, maxGravity) ==
  LET length == CeilSqrt(LengthSq(v))
  IN  [i \in 1..3 |-> Trunc(v[i] * maxGravity, length)]

SensorOptions(sensitivity, updateInterval, smoothingFactor, maxGravity) ==
  [sensitivity |-> sensitivity, updateInterval |-> updateInterval,
   smoothingFactor |-> smoothingFactor, maxGravity |-> maxGravity]

\* new AccelerometerManager(options): an option that is 0 or not given has
\* its default
AccelerometerManager(options) ==
  [sensitivity          |-> OrDefault(options.sensitivity, DefaultSensitivity),
   updateInterval       |-> OrDefault(options.updateInterval, DefaultUpdateInterval),
   smoothingFactor      |-> OrDefault(options.smoothingFactor, DefaultSmoothingFactor),
   maxGravity           |-> OrDefault(options.maxGravity, DefaultMaxGravity),
   isActive             |-> FALSE,
   referenceVector      |-> Vec(0, DefaultGravityY, 0),
   currentAcceleration  |-> Vec(0, 0, 0),
   smoothedAcceleration |-> Vec(0, 0, 0),
   gravityVector        |-> Vec(0, DefaultGravityY, 0),
   onGravityChange      |-> NULL,
   subscription         |-> 0]

\* the options of the exported accelerometerManager
SingletonSensorOptions == SensorOptions(50, 16, 12, 2500)

\* the manager with the sensor it listens to and its calls of start; nextId
\* is the id of the next subscription (0 is none), delivered the vectors the
\* last step handed to onGravityChange, updates the readings the manager has
\* taken, and stopped tells that stop() has returned and start() was not
\* called since
SensorSystem(options) ==
  [am |-> AccelerometerManager(options), listeners |-> <<>>, starts |-> <<>>, nextId |-> 1,
   delivered |-> <<>>, updates |-> 0, stopped |-> FALSE]

\* Accelerometer.addListener: the listener goes to the end of the list
addListener(s, kind, call) ==
  [s EXCEPT !.listeners = Append(@, [id |-> s.nextId, kind |-> kind, call |-> call]),
            !.nextId = @ + 1]

\* subscription.remove()
removeListener(s, id) == [s EXCEPT !.listeners = SelectSeq(@, LAMBDA l : l.id # id)]

\* start() is called: it awaits isAvailable()
startCalled(s) ==
  [s EXCEPT !.starts = Append(@, [pc |-> "available", sampleCount |-> 0,
                                  accumulatedVector |-> Vec(0, 0, 0)]),
            !.stopped = FALSE, !.delivered = <<>>]

\* isAvailable() of call k of start resolves: with false the call returns,
\* with true calibrateReference adds its listener and the call awaits it
availabilityResolved(s, k, available) ==
  IF ~available THEN [s EXCEPT !.starts[k].pc = "done", !.delivered = <<>>]
  ELSE [addListener(s, "calibration", k) EXCEPT !.starts[k].pc = "calibrating",
                                                 !.delivered = <<>>]

\* smoothedAcceleration.lerp(currentAcceleration, smoothingFactor)
Lerp(smoothed, current, smoothingFactor) ==
  [i \in 1..3 |-> smoothed[i] + Trunc((current[i] - smoothed[i]) * smoothingFactor, 100)]

\* the gravity of a smoothed acceleration, before it is clamped
GravityOf(am, smoothed) ==
  LET delta == [i \in 1..3 |-> smoothed[i] - am.referenceVector[i]]
  IN  Vec(-Trunc(delta[1] * am.sensitivity, 10),
          am.referenceVector[2] - Trunc(delta[2] * am.sensitivity * 5, 100),
          -Trunc(delta[3] * am.sensitivity, 10))

\* if (gravityVector.length() > maxGravity) normalize().multiplyScalar(maxGravity)
Clamped(am, gravity) ==
  IF LengthSq(gravity) > am.maxGravity * am.maxGravity THEN ClampLength(gravity, am.maxGravity)
  ELSE gravity

\* if (gravityVector.y > -1) gravityVector.y = -1
Downward(gravity) ==
  IF gravity[2] > MinimumDownward THEN [gravity EXCEPT ![2] = MinimumDownward] ELSE gravity

\* handleAccelerometerUpdate(data) in system s
handleAccelerometerUpdate(s, data) ==
  IF ~s.am.isActive THEN s
  ELSE LET smoothed == Lerp(s.am.smoothedAcceleration, data, s.am.smoothingFactor)
           gravity == Downward(Clamped(s.am, GravityOf(s.am, smoothed)))
       IN  [s EXCEPT !.am.currentAcceleration = data,
                     !.am.smoothedAcceleration = smoothed,
                     !.am.gravityVector = gravity,
                     !.updates = @ + 1,
                     !.delivered = IF s.am.onGravityChange # NULL THEN Append(@, gravity) ELSE @]

\* the listener of calibrateReference of call k of start gets data
calibrationSample(s, id, k, data) ==
  LET count == s.starts[k].sampleCount + 1
      sum == [i \in 1..3 |-> s.starts[k].accumulatedVector[i] + data[i]]
      s1 == [s EXCEPT !.starts[k].sampleCount = count, !.starts[k].accumulatedVector = sum]
  IN  IF count >= TotalSamples
      THEN [removeListener(s1, id) EXCEPT
              !.am.referenceVector = [i \in 1..3 |-> Trunc(sum[i], TotalSamples)],
              !.starts[k].pc = "resolved"]
      ELSE s1

\* the sensor hands data to the listeners it had when the event began, from
\* listener n of them on; one that was removed meanwhile is passed over
RECURSIVE EmitFrom(_, _, _, _)
EmitFrom(s, listeners, n, data) ==
  IF n > Len(listeners) THEN s
  ELSE LET l == listeners[n]
           live == \E i \in 1..Len(s.listeners) : s.listeners[i].id = l.id
           s1 == IF ~live THEN s
                 ELSE IF l.kind = "calibration" THEN calibrationSample(s, l.id, l.call, data)
                 ELSE handleAccelerometerUpdate(s, data)
       IN  EmitFrom(s1, listeners, n + 1, data)

\* call k of start goes on after calibrateReference: it subscribes
\* handleAccelerometerUpdate and the manager is active
startResumed(s, k) ==
  [addListener(s, "update", 0) EXCEPT !.am.subscription = s.nextId,
                                       !.am.isActive = TRUE,
                                       !.starts[k].pc = "done"]

\* the calls of start whose calibration has resolved go on, from call k on
RECURSIVE ResumeFrom(_, _)
ResumeFrom(s, k) ==
  IF k > Len(s.starts) THEN s
  ELSE ResumeFrom(IF s.starts[k].pc = "resolved" THEN startResumed(s, k) ELSE s, k + 1)

\* one reading of the sensor: every listener gets it, then the calls of start
\* that awaited a calibration it has ended go on
sensorEvent(s, data) == ResumeFrom(EmitFrom([s EXCEPT !.delivered = <<>>], s.listeners, 1, data), 1)

\* stop()
stop(s) ==
  LET s1 == IF s.am.subscription # 0
            THEN [removeListener(s, s.am.subscription) EXCEPT !.am.subscription = 0]
            ELSE s
  IN  [s1 EXCEPT !.am.isActive = FALSE, !.stopped = TRUE, !.delivered = <<>>]

\* setGravityChangeCallback(callback)
setGravityChangeCallback(s, callback) ==
  [s EXCEPT !.am.onGravityChange = callback, !.delivered = <<>>]

\* resetReference()
resetReference(s) ==
  IF s.am.isActive
  THEN [s EXCEPT !.am.referenceVector = s.am.smoothedAcceleration, !.delivered = <<>>]
  ELSE [s EXCEPT !.delivered = <<>>]

-----------------------------------------------------------------------------
(* src/unnamed/part_002: AssetManager.  A loaded model is named by the file  *)
(* it was parsed from; what a call returns is <<model>>, or <<>> for null.   *)
(* The loads are taken one at a time: the outcome of the download and of     *)
(* the parse of a file is an input of the call.                              *)

\* ASSET_REGISTRY
RegistryModels == { "level1.glb", "level2.glb" }
RegistryTextures == { "block01.png", "block02.png" }

NoKey == ""

\* new AssetManager()
AssetManager == [loadedTextures |-> <<>>, loadedModels |-> <<>>, gl |-> NULL]

\* modelKey || modelName
KeyOf(name, key) == IF key # NoKey THEN key ELSE name

\* scene.clone(), with the material the level gives it
Clone(gltfScene) == [source |-> gltfScene.source, clone |-> TRUE, material |-> "own"]

\* loadModel(modelName, modelKey): am is the manager after the call
loadModel(am, modelName, modelKey, loads) ==
  LET key == KeyOf(modelName, modelKey)
  IN  IF key \in DOMAIN am.loadedModels
      THEN [am |-> am, returns |-> <<Clone(am.loadedModels[key])>>]
      ELSE IF modelName \notin RegistryModels \/ ~loads
      THEN [am |-> am, returns |-> <<>>]
      ELSE LET gltfScene == [source |-> modelName, clone |-> FALSE, material |-> "own"]
           IN  [am |-> [am EXCEPT !.loadedModels = (key :> gltfScene) @@ @],
                returns |-> <<Clone(gltfScene)>>]

\* loadTexture(textureName)
loadTexture(am, textureName, loads) ==
  IF textureName \in DOMAIN am.loadedTextures
  THEN [am |-> am, returns |-> <<am.loadedTextures[textureName]>>]
  ELSE IF textureName \notin RegistryTextures \/ ~loads
  THEN [am |-> am, returns |-> <<>>]
  ELSE [am |-> [am EXCEPT !.loadedTextures = (textureName :> textureName) @@ @],
        returns |-> <<textureName>>]

\* loadLevel(modelName, textureName, levelKey): the model with the texture,
\* or with coloured materials when there is none
loadLevel(am, modelName, textureName, levelKey, modelLoads, textureLoads) ==
  LET m == loadModel(am, modelName, levelKey, modelLoads)
  IN  IF m.returns = <<>> THEN m
      ELSE IF textureName = NoKey
      THEN [am |-> m.am, returns |-> <<[m.returns[1] EXCEPT !.material = "coloured"]>>]
      ELSE LET t == loadTexture(m.am, textureName, textureLoads)
           IN  [am |-> t.am,
                returns |-> <<[m.returns[1] EXCEPT !.material =
                                 IF t.returns # <<>> THEN t.returns[1] ELSE "coloured"]>>]

\* unloadAssets(key): one key, or all for none
unloadAssets(am, key) ==
  IF key # NoKey
  THEN [am EXCEPT !.loadedTextures = [k \in DOMAIN @ \ {key} |-> @[k]],
                  !.loadedModels = [k \in DOMAIN @ \ {key} |-> @[k]]]
  ELSE [am EXCEPT !.loadedTextures = <<>>, !.loadedModels = <<>>]

-----------------------------------------------------------------------------
(* The input manager with its surroundings: now is what Date.now() reads,    *)
(* serial the number of ids made; returned, emitted, invoked and thrown are  *)
(* what the last call returned, the events it handed to trigger, the calls   *)
(* of handlers these made and whether an error left the call.  pressOpen     *)
(* tells that a press was emitted and no release since; removed holds the    *)
(* <<event type, id>> of the handlers that off took away and on has not set  *)
(* since.                                                                    *)

StartTime == 5000

InputSystem ==
  [im |-> InputManager, now |-> StartTime, serial |-> 0, returned |-> NoId, emitted |-> <<>>,
   invoked |-> <<>>, thrown |-> FALSE, pressOpen |-> FALSE, removed |-> {}]

\* the asset manager with the last load asked of it and what it returned
AssetSystem == [am |-> AssetManager, call |-> <<>>, returned |-> <<>>]

-----------------------------------------------------------------------------
(* The state machine *)

Heap ==
  [chunks |-> chunks, wb |-> worldBodies, calls |-> <<>>, seen |-> BodiesOf(chunks, worldBodies),
   model |-> model, scene |-> scene]

\* the <<chunk id, shape>> pairs of the stored chunks, and the sets of them
\* that the physics world may reject in one call
Slots == UNION { { <<id, k>> : k \in 1..Len(chunks[id].trimeshes) } : id \in DOMAIN chunks }
RejectSets == { r \in SUBSET Slots : Cardinality(r) <= MaxRejects }

\* the chunk ids addChunk and removeChunk are called with
ChunkIds == (0..1) \X (0..1)

\* the models the application builds its chunks from
Scenes == { <<MeshA, MeshC>>, <<MeshT>> }

Constructed(optionSets) ==
  /\ \E options \in optionSets : cfg = PhysicsManagerConstructor(options)
  /\ chunks = <<>>
  /\ chunkOrder = <<>>
  /\ world = NULL
  /\ playerPosition = Vec(0, 0, 0)
  /\ worldBodies = [w \in Worlds |-> {}]
  /\ model = <<>>
  /\ scene = <<>>
  /\ \E options \in levelManagerOptions : level = LevelManager(options)
  /\ input = InputSystem
  /\ sensor = SensorSystem(SingletonSensorOptions)
  /\ assets = AssetSystem

Init == Constructed(OptionSets)

SetWorld(w) ==
  /\ world' = w
  /\ UNCHANGED <<cfg, chunks, chunkOrder, playerPosition, worldBodies, model, scene, level, input, sensor, assets>>

\* processGeometry(null): error, return
ProcessNoModel == UNCHANGED vars

ProcessGeometry(m) ==
  LET st == createSpatialChunks(CollectMeshChildren(m), OverallBBox(m, 1), cfg,
                                [chunks |-> chunks, order |-> chunkOrder])
  IN  /\ model' = <<m>>
      /\ scene' = [i \in 1..Len(m) |-> PoseOf(m[i])]
      /\ chunks' = st.chunks
      /\ chunkOrder' = st.order
      /\ UNCHANGED <<cfg, world, playerPosition, worldBodies, level, input, sensor, assets>>

UpdateChunks(p, rej) ==
  LET st == updateChunks(Heap, chunkOrder, p, cfg, world, rej)
  IN  /\ playerPosition' = p
      /\ UNCHANGED <<cfg, chunkOrder, world, model, scene, level, input, sensor, assets>>
      /\ Cardinality(BodiesOf(st.chunks, st.wb)) <= MaxBodies
      /\ chunks' = st.chunks
      /\ worldBodies' = st.wb

\* what addChunk and removeChunk return
ChunkAndWorld(chunkId) == chunkId \in DOMAIN chunks /\ world # NULL

AddChunk(chunkId, rej) ==
  LET st == IF ChunkAndWorld(chunkId) THEN addToWorld(Heap, chunkId, world, rej) ELSE Heap
  IN  /\ UNCHANGED <<cfg, chunkOrder, world, playerPosition, model, scene, level, input, sensor, assets>>
      /\ Cardinality(BodiesOf(st.chunks, st.wb)) <= MaxBodies
      /\ chunks' = st.chunks
      /\ worldBodies' = st.wb

RemoveChunk(chunkId) ==
  LET st == IF ChunkAndWorld(chunkId) THEN removeFromWorld(Heap, chunkId, world) ELSE Heap
  IN  /\ UNCHANGED <<cfg, chunkOrder, world, playerPosition, model, scene, level, input, sensor, assets>>
      /\ chunks' = st.chunks
      /\ worldBodies' = st.wb

\* getLoadedChunks returns the ids of the loaded chunks, in the Map's order
getLoadedChunks == SelectSeq(chunkOrder, LAMBDA id : chunks[id].isLoaded)

\* getChunksInRadius returns the ids of the chunks whose centre is within radius
getChunksInRadius(position, radius) ==
  SelectSeq(chunkOrder,
            LAMBDA id : DistLE(getDistanceToPoint2Sq(chunks[id].aabb, position), radius))

\* getStatus returns a summary
getStatus ==
  [totalChunks |-> Cardinality(DOMAIN chunks),
   loadedChunks |-> Len(getLoadedChunks),
   loadedChunkIds |-> getLoadedChunks,
   playerPosition |-> playerPosition,
   loadRadius |-> cfg.loadRadius,
   unloadRadius |-> cfg.unloadRadius]

\* the three getters read the state and change nothing
Getters == UNCHANGED vars

Cleanup ==
  LET st == IF world # NULL THEN CleanupFrom(Heap, chunkOrder, 1, world) ELSE Heap
  IN  /\ chunks' = <<>>
      /\ chunkOrder' = <<>>
      /\ worldBodies' = st.wb
      /\ UNCHANGED <<cfg, world, playerPosition, model, scene, level, input, sensor, assets>>

Next ==
  \/ \E w \in Worlds \cup {NULL} : SetWorld(w)
  \/ ProcessNoModel
  \/ \E m \in Scenes : ProcessGeometry(m)
  \/ \E p \in Positions, rej \in RejectSets : UpdateChunks(p, rej)
  \/ \E id \in ChunkIds, rej \in RejectSets : AddChunk(id, rej)
  \/ \E id \in ChunkIds : RemoveChunk(id)
  \/ Getters
  \/ Cleanup

Spec == Init /\ [][Next]_vars

\* The partition alone: one processGeometry on a new manager, for every model
BuildOnce(m) == model = <<>> /\ ProcessGeometry(m)

NextBuild == \E m \in Models : BuildOnce(m)

InitBuild == Constructed(BuildOptionSets)

SpecBuild == InitBuild /\ [][NextBuild]_vars

\* One session as the application runs it: the world is set once, the chunks are
\* built once, and from then on they are streamed
SetWorldOnce(w) == world = NULL /\ SetWorld(w)

SessionScenes == Scenes \cup { <<MeshZ, MeshC>>, <<MeshA, MeshB>> }

NextOneWorld ==
  \/ \E w \in Worlds : SetWorldOnce(w)
  \/ \E m \in SessionScenes : BuildOnce(m)
  \/ \E p \in Positions, rej \in RejectSets : UpdateChunks(p, rej)
  \/ \E id \in ChunkIds, rej \in RejectSets : AddChunk(id, rej)
  \/ \E id \in ChunkIds : RemoveChunk(id)

SpecOneWorld == Init /\ [][NextOneWorld]_vars

\* The application moves, turns or scales object i of the model after the build
MoveMesh(i, pose) ==
  /\ i \in DOMAIN scene
  /\ scene' = [scene EXCEPT ![i] = pose]
  /\ UNCHANGED <<cfg, chunks, chunkOrder, world, playerPosition, worldBodies, model, level, input, sensor, assets>>

\* the models whose meshes are moved
MovedScenes == { <<MeshA, MeshP>>, <<MeshS, MeshC>> }

\* One session in which the meshes move after the build
NextMoved ==
  \/ \E w \in Worlds : SetWorldOnce(w)
  \/ \E m \in MovedScenes : BuildOnce(m)
  \/ \E i \in 1..MaxMeshes, pose \in Poses : MoveMesh(i, pose)
  \/ \E p \in Positions, rej \in RejectSets : UpdateChunks(p, rej)
  \/ \E id \in ChunkIds, rej \in RejectSets : AddChunk(id, rej)
  \/ \E id \in ChunkIds : RemoveChunk(id)

SpecMoved == Init /\ [][NextMoved]_vars

\* One session in which the application changes or drops the world at any
\* time: the chunks are built once, streamed, and cleaned up
NextWorlds ==
  \/ \E w \in Worlds \cup {NULL} : SetWorld(w)
  \/ \E m \in Scenes : BuildOnce(m)
  \/ \E p \in Positions, rej \in RejectSets : UpdateChunks(p, rej)
  \/ \E id \in ChunkIds, rej \in RejectSets : AddChunk(id, rej)
  \/ \E id \in ChunkIds : RemoveChunk(id)
  \/ Cleanup

SpecWorlds == Init /\ [][NextWorlds]_vars

\* One session in one world in which the chunks are built again at any time
NextRebuild ==
  \/ \E w \in Worlds : SetWorldOnce(w)
  \/ \E m \in Scenes : ProcessGeometry(m)
  \/ \E p \in Positions, rej \in RejectSets : UpdateChunks(p, rej)
  \/ \E id \in ChunkIds, rej \in RejectSets : AddChunk(id, rej)
  \/ \E id \in ChunkIds : RemoveChunk(id)

SpecRebuild == Init /\ [][NextRebuild]_vars

-----------------------------------------------------------------------------
(* The level: the operations of LevelManager on the exported levelManager *)

physicsVars == <<cfg, chunks, chunkOrder, world, playerPosition, worldBodies, model, scene>>

otherVars == <<input, sensor, assets>>

\* the chunks the application asks for
LevelChunkIds == { <<0, 0>>, <<1, 0>> }

EmptyText == <<>>

\* a text of its first two lines of two numbers: the corners of cell (0, 0)
CornerText(h00, h10, h01, h11) == << <<Num(h00), Num(h10)>>, <<Num(h01), Num(h11)>> >>

\* a text of size lines of size times the number n
FlatText(n, size) == [y \in 1..size |-> [x \in 1..size |-> Num(n)]]

LevelText(heightBase, heightOffset, sideTextures, topTextures, objects) ==
  [heightBase |-> heightBase, heightOffset |-> heightOffset, sideTextures |-> sideTextures,
   topTextures |-> topTextures, objects |-> objects]

\* the heights of the corners of the terrain's texts
CornerHeights == {-1, 0, 1, 5, 6}

\* the texts of the terrain: every choice of the corners of cell (0, 0), with
\* and without an offset of 1 on its first corner and a crystal on it; the
\* flat level of height 1; and the example level
TerrainTexts ==
  { LevelText(CornerText(a, b, c, d), offset, EmptyText, EmptyText, objects) :
      a \in CornerHeights, b \in CornerHeights, c \in CornerHeights, d \in CornerHeights,
      offset \in { EmptyText, << <<Num(1)>> >> },
      objects \in { EmptyText, << <<"C">> >> } }
    \cup { LevelText(FlatText(1, HeightGridSize), EmptyText, EmptyText, EmptyText, EmptyText),
           ExampleLevel }

\* the texts of a session: a steep cell with a lift on it and a texture past
\* the fallback materials, and a short text with a negative number, a number
\* followed by other characters, a word and a character that is no tag
SessionTexts ==
  { LevelText(CornerText(2, 2, 2, 7), EmptyText, << <<Num(100)>> >>, EmptyText, << <<"L">> >>),
    LevelText(<< <<Num(-3), NumThenJunk(1)>>, <<Junk>> >>, << <<Num(1)>> >>, EmptyText, EmptyText,
              << <<"x">> >>) }

Initialize ==
  /\ level' = initialize(level)
  /\ UNCHANGED <<physicsVars, otherVars>>

CreateChunk(id) ==
  /\ level' = createChunk(level, id)
  /\ UNCHANGED <<physicsVars, otherVars>>

LoadChunkFromASCII(id, text) ==
  /\ level' = loadChunkFromASCII(level, id, text)
  /\ UNCHANGED <<physicsVars, otherVars>>

GenerateChunkGeometry(id) ==
  /\ level' = generateChunkGeometry(level, id)
  /\ UNCHANGED <<physicsVars, otherVars>>

GenerateChunkTrimeshes(id) ==
  /\ level' = generateChunkTrimeshes(level, id)
  /\ UNCHANGED <<physicsVars, otherVars>>

GetAllTrimeshes ==
  /\ level' = getAllTrimeshes(level).lm
  /\ UNCHANGED <<physicsVars, otherVars>>

CreateExampleLevel ==
  /\ level' = createExampleLevel(level)
  /\ UNCHANGED <<physicsVars, otherVars>>

CreateTestLevel ==
  /\ level' = createTestLevel(level)
  /\ UNCHANGED <<physicsVars, otherVars>>

CreateTrimesh ==
  /\ level' = createTrimesh(level).lm
  /\ UNCHANGED <<physicsVars, otherVars>>

GetStats ==
  /\ level' = getStats(level).lm
  /\ UNCHANGED <<physicsVars, otherVars>>

LevelCleanup ==
  /\ level' = levelCleanup(level)
  /\ UNCHANGED <<physicsVars, otherVars>>

InitLevel == Constructed({Opt(0, 0, 0, 0)})

\* the managers as their modules export them, with the physics manager and
\* the level manager of the defaults
InitManagers == Constructed({Opt(0, 0, 0, 0)}) /\ level = LevelManager([chunkSize |-> 8])

\* The terrain alone: one text loaded into a new manager, and its geometry
LoadOnce(id, text) == level.chunks = <<>> /\ LoadChunkFromASCII(id, text)

NextTerrain ==
  \/ Initialize
  \/ \E id \in LevelChunkIds, text \in TerrainTexts : LoadOnce(id, text)
  \/ \E id \in LevelChunkIds : GenerateChunkGeometry(id)

SpecTerrain == InitLevel /\ [][NextTerrain]_vars

\* the chunk a session works on
SessionChunkIds == { <<0, 0>> }

\* One session of the exported level manager, any operation at any time
NextLevel ==
  \/ Initialize
  \/ \E id \in SessionChunkIds : CreateChunk(id)
  \/ \E text \in SessionTexts : LoadChunkFromASCII(<<0, 0>>, text)
  \/ \E id \in SessionChunkIds : GenerateChunkGeometry(id)
  \/ \E id \in SessionChunkIds : GenerateChunkTrimeshes(id)
  \/ GetAllTrimeshes
  \/ CreateExampleLevel
  \/ CreateTestLevel
  \/ CreateTrimesh
  \/ GetStats
  \/ LevelCleanup

SpecLevel == InitManagers /\ [][NextLevel]_vars

-----------------------------------------------------------------------------
(* Properties of the streaming (updateChunks, addChunk, removeChunk) *)

\* the step is a call updateChunks(p)
IsUpdateChunks(p) == \E rej \in RejectSets : UpdateChunks(p, rej)

Within(id, p, radius) == DistLE(getDistanceToPoint2Sq(chunks[id].aabb, p), radius)

BodySet(id) == { chunks[id].physicsBodies[i] : i \in 1..Len(chunks[id].physicsBodies) }

\* C1: with a world set and unloadRadius > loadRadius, right after
\* updateChunks(p) every chunk whose centre is at most loadRadius from p is
\* loaded and every chunk whose centre is more than unloadRadius from p is
\* unloaded, whatever the state before the call.
C1_LoadedNearUnloadedFar ==
  [][\A p \in Positions :
       (IsUpdateChunks(p) /\ world # NULL /\ cfg.unloadRadius > cfg.loadRadius)
       => \A id \in DOMAIN chunks' :
            /\ Within(id, p, cfg.loadRadius)' => chunks'[id].isLoaded
            /\ ~Within(id, p, cfg.unloadRadius)' => ~chunks'[id].isLoaded]_vars

\* a valid configuration after updateChunks: one chunk is within loadRadius of
\* the player and loaded, another is beyond unloadRadius and unloaded
C1_Witness ==
  /\ world # NULL
  /\ cfg.unloadRadius > cfg.loadRadius
  /\ playerPosition \in Positions
  /\ \E a, b \in DOMAIN chunks :
       /\ Within(a, playerPosition, cfg.loadRadius) /\ chunks[a].isLoaded
       /\ chunks[a].physicsBodies # <<>>
       /\ ~Within(b, playerPosition, cfg.unloadRadius) /\ ~chunks[b].isLoaded

\* C2: an updateChunks call at which a chunk is in the band
\* loadRadius < d <= unloadRadius leaves its isLoaded flag and its
\* physicsBodies list as they were; and a loaded chunk that is at most
\* unloadRadius away stays loaded with the same bodies, so that over calls
\* that never take it beyond unloadRadius it changes state at most once,
\* from unloaded to loaded.
C2_Hysteresis ==
  [][\A p \in Positions :
       IsUpdateChunks(p)
       => \A id \in DOMAIN chunks :
            /\ (~Within(id, p, cfg.loadRadius) /\ Within(id, p, cfg.unloadRadius))
                 => /\ chunks'[id].isLoaded = chunks[id].isLoaded
                    /\ chunks'[id].physicsBodies = chunks[id].physicsBodies
            /\ (chunks[id].isLoaded /\ Within(id, p, cfg.unloadRadius))
                 => /\ chunks'[id].isLoaded
                    /\ chunks'[id].physicsBodies = chunks[id].physicsBodies]_vars

\* a loaded chunk in the band of the player's position, next to a chunk that
\* updateChunks has unloaded
C2_Witness ==
  /\ world # NULL
  /\ cfg.unloadRadius > cfg.loadRadius
  /\ \E a, b \in DOMAIN chunks :
       /\ chunks[a].isLoaded /\ chunks[a].physicsBodies # <<>>
       /\ ~Within(a, playerPosition, cfg.loadRadius)
       /\ Within(a, playerPosition, cfg.unloadRadius)
       /\ Within(b, playerPosition, cfg.loadRadius) /\ chunks[b].isLoaded


\* what a call updateChunks(p) does in the current state
SecondCall(p, rej) == updateChunks(Heap, chunkOrder, p, cfg, world, rej)

\* C3: after updateChunks(p), a second updateChunks(p) makes no addBody and no
\* removeBody call and leaves every chunk's isLoaded flag and physicsBodies
\* list as they are.
C3_Idempotent ==
  [][\A p \in Positions :
       IsUpdateChunks(p)
       => \A rej \in RejectSets' :
            /\ SecondCall(p, rej)'.calls = <<>>
            /\ SecondCall(p, rej)'.chunks = chunks']_vars

\* C4: with one world, set once, a chunk that is not loaded has an empty
\* physicsBodies list and no body of its is in the world: the world holds the
\* bodies the loaded chunks list and no other; and an unload removes from the
\* world exactly the bodies the chunk listed.
C4_UnloadedOwnsNothing ==
  /\ [](/\ \A id \in DOMAIN chunks : ~chunks[id].isLoaded => chunks[id].physicsBodies = <<>>
        /\ \A w \in Worlds :
             worldBodies[w] = IF w = world THEN UNION { BodySet(id) : id \in DOMAIN chunks }
                              ELSE {})
  /\ [][\A id \in DOMAIN chunks :
          (world # NULL /\ chunks[id].isLoaded /\ ~chunks'[id].isLoaded)
          => /\ worldBodies'[world] \cap BodySet(id) = {}
             /\ \A b \in worldBodies[world] \ worldBodies'[world] :
                  \E k \in DOMAIN chunks : b \in BodySet(k) /\ ~chunks'[k].isLoaded]_vars

\* a chunk that was loaded with bodies and is unloaded again, beside a chunk
\* whose bodies are in the world
C4_Witness ==
  /\ world # NULL
  /\ playerPosition \in Positions
  /\ \E a, b \in DOMAIN chunks :
       /\ ~chunks[a].isLoaded /\ chunks[a].trimeshes # <<>>
       /\ ~Within(a, playerPosition, cfg.unloadRadius)
       /\ chunks[b].isLoaded /\ Len(chunks[b].physicsBodies) = 2

\* C5: no manager runs updateChunks with unloadRadius <= loadRadius: the
\* constructor refuses such a configuration.
C5_ConfigChecked ==
  [][\A p \in Positions : IsUpdateChunks(p) => cfg.unloadRadius > cfg.loadRadius]_vars


\* the step is a call of updateChunks, addChunk, removeChunk or of a getter
IsStreamingCall ==
  \/ \E p \in Positions : IsUpdateChunks(p)
  \/ \E id \in ChunkIds, rej \in RejectSets : AddChunk(id, rej)
  \/ \E id \in ChunkIds : RemoveChunk(id)
  \/ Getters

\* C10: no call of updateChunks, addChunk, removeChunk or of a getter adds or
\* removes a chunk or changes a stored chunk's aabb, meshChildren or
\* trimeshes; only isLoaded and physicsBodies vary.
C10_ContentFixed ==
  [][IsStreamingCall
     => /\ DOMAIN chunks' = DOMAIN chunks
        /\ chunkOrder' = chunkOrder
        /\ \A id \in DOMAIN chunks :
             /\ chunks'[id].id = chunks[id].id
             /\ chunks'[id].aabb = chunks[id].aabb
             /\ chunks'[id].meshChildren = chunks[id].meshChildren
             /\ chunks'[id].trimeshes = chunks[id].trimeshes]_vars

\* a chunk that addChunk loaded and updateChunks unloaded again, its shapes
\* still there, while the manager holds the world
C10_Witness ==
  /\ world # NULL
  /\ playerPosition \in Positions
  /\ \E a \in DOMAIN chunks :
       /\ ~chunks[a].isLoaded
       /\ Len(chunks[a].trimeshes) = 2
       /\ Within(a, playerPosition, cfg.unloadRadius)
       /\ ~Within(a, playerPosition, cfg.loadRadius)

-----------------------------------------------------------------------------
(* Properties of the partition (processGeometry, createSpatialChunks) *)

\* the model the chunks were built from, its meshes and its bounding box
Built == model[1]
BuiltMeshes == CollectMeshChildren(Built)
BuiltBBox == OverallBBox(Built, 1)

\* the meshes whose box intersects aabb, in the order of the input
Intersecting(aabb) == SelectSeq(BuiltMeshes, LAMBDA child : intersectsBox(aabb, child.box))

FirstN(seq, n) == SubSeq(seq, 1, Min2(n, Len(seq)))

\* the cells of the grid over the model's bounding box
BuiltCells ==
  LET size == getSize(BuiltBBox)
  IN  (0..(CeilDiv(size[1], cfg.chunkSize) - 1)) \X (0..(CeilDiv(size[3], cfg.chunkSize) - 1))

\* C6: after processGeometry every stored chunk has at least one collision
\* shape and is not loaded, whatever the meshes.
C6_EveryChunkHasShape ==
  model # <<>> => \A id \in DOMAIN chunks : chunks[id].trimeshes # <<>> /\ ~chunks[id].isLoaded

\* C7: after createSpatialChunks no chunk lists a mesh that its AABB does not
\* intersect, a chunk whose cap is not reached lists exactly the meshes its
\* AABB intersects (touching counts), and a cell of the grid with no chunk
\* intersects no mesh.
C7_ListedIffIntersects ==
  model # <<>> =>
    /\ \A id \in DOMAIN chunks :
         /\ \A i \in 1..Len(chunks[id].meshChildren) :
              intersectsBox(chunks[id].aabb, chunks[id].meshChildren[i].box)
         /\ Len(chunks[id].meshChildren) < cfg.maxChildrenPerChunk
              => chunks[id].meshChildren = Intersecting(chunks[id].aabb)
    /\ DOMAIN chunks \subseteq BuiltCells
    /\ \A cell \in BuiltCells \ DOMAIN chunks :
         \A i \in 1..Len(BuiltMeshes) :
           LET b == BuiltMeshes[i].box
               lo == [k \in 1..3 |-> IF k = 2 THEN BuiltBBox.min[2]
                                     ELSE BuiltBBox.min[k] + cell[(k + 1) \div 2] * cfg.chunkSize]
               hi == [k \in 1..3 |-> IF k = 2 THEN BuiltBBox.max[2]
                                     ELSE BuiltBBox.min[k] + (cell[(k + 1) \div 2] + 1) * cfg.chunkSize]
           IN  ~intersectsBox(Box3(lo, hi), b)

\* a mesh that two chunks list, one of them touching it only, neither full
C7_Witness ==
  /\ model # <<>>
  /\ \E a, b \in DOMAIN chunks, i \in 1..Len(BuiltMeshes) :
       /\ a # b
       /\ Len(chunks[a].meshChildren) < cfg.maxChildrenPerChunk
       /\ Len(chunks[b].meshChildren) < cfg.maxChildrenPerChunk
       /\ \E j \in 1..Len(chunks[a].meshChildren) : chunks[a].meshChildren[j] = BuiltMeshes[i]
       /\ \E j \in 1..Len(chunks[b].meshChildren) : chunks[b].meshChildren[j] = BuiltMeshes[i]
       /\ BuiltMeshes[i].box.max[1] = chunks[b].aabb.min[1]
       /\ \E k \in 1..Len(BuiltMeshes) : ~intersectsBox(chunks[a].aabb, BuiltMeshes[k].box)

\* C8: after createSpatialChunks every chunk lists at most maxChildrenPerChunk
\* meshes: the first maxChildrenPerChunk of the meshes its AABB intersects, in
\* input order, each chunk counting for itself.
C8_FirstUnderCap ==
  model # <<>> =>
    \A id \in DOMAIN chunks :
      /\ Len(chunks[id].meshChildren) <= cfg.maxChildrenPerChunk
      /\ chunks[id].meshChildren = FirstN(Intersecting(chunks[id].aabb), cfg.maxChildrenPerChunk)

\* a full chunk that skipped a mesh, and another chunk that lists that mesh
C8_Witness ==
  /\ model # <<>>
  /\ \E a, b \in DOMAIN chunks :
       /\ a # b
       /\ Len(chunks[a].meshChildren) = cfg.maxChildrenPerChunk
       /\ Len(Intersecting(chunks[a].aabb)) > cfg.maxChildrenPerChunk
       /\ \E i \in 1..Len(chunks[b].meshChildren) :
            /\ intersectsBox(chunks[a].aabb, chunks[b].meshChildren[i].box)
            /\ \A j \in 1..Len(chunks[a].meshChildren) :
                 chunks[a].meshChildren[j] # chunks[b].meshChildren[i]

\* the overall bounding box is chunkSize wide in X and in Z
OneCellBBox ==
  /\ model # <<>>
  /\ ~BuiltBBox.empty
  /\ getSize(BuiltBBox)[1] = cfg.chunkSize
  /\ getSize(BuiltBBox)[3] = cfg.chunkSize

OneChunkOfBBox ==
  /\ DOMAIN chunks = { <<0, 0>> }
  /\ chunks[<<0, 0>>].aabb = BuiltBBox

\* C9, as claimed: when the overall bounding box is chunkSize wide in X and in
\* Z, createSpatialChunks makes exactly one chunk, whose AABB is the overall
\* bounding box.
C9_OneChunkForOneCell == OneCellBBox => OneChunkOfBBox

\* C9, amended: the same when maxChildrenPerChunk >= 1 and at least one
\* collected mesh has a box that is not empty; when none has, no chunk is made.
C9_OneChunkForOneCellOfMeshes ==
  (OneCellBBox /\ cfg.maxChildrenPerChunk >= 1) =>
    IF \E i \in 1..Len(BuiltMeshes) : ~BuiltMeshes[i].box.empty
    THEN OneChunkOfBBox
    ELSE chunks = <<>>

\* one mesh that spans the only cell, in the one chunk made
C9_Witness ==
  /\ OneCellBBox
  /\ OneChunkOfBBox
  /\ chunks[<<0, 0>>].meshChildren = <<MeshA>>
  /\ MeshA.box = BuiltBBox


-----------------------------------------------------------------------------
(* Properties of a load and of the order of the visits *)

\* what the call updateChunks(p) does in the current state: the heap it leaves
\* and the calls it makes on the world
UpdateResult(p, rej) == updateChunks(Heap, chunkOrder, p, cfg, world, rej)

\* the addBody calls of a call's log that are made for chunk id, in order
AddCallsFor(calls, id) == SelectSeq(calls, LAMBDA c : c[1] = "addBody" /\ c[3].chunk = id)

\* the bodies of the calls of a log that the world accepted, in order
AcceptedBodies(calls) ==
  LET ok == SelectSeq(calls, LAMBDA c : c[4]) IN [i \in 1..Len(ok) |-> ok[i][3]]

\* C11: when updateChunks loads a chunk and the world throws on addBody for
\* some of its shapes, addBody is still called once for every shape of the
\* chunk, in order, the chunk ends loaded, its physicsBodies list holds exactly
\* the bodies the world accepted, in order, and those are in the world while
\* the rejected ones are not; the call completes for every chunk.
C11_PartialLoad ==
  [][\A p \in Positions, rej \in RejectSets :
       (UpdateChunks(p, rej) /\ world # NULL)
       => \A id \in DOMAIN chunks :
            (~chunks[id].isLoaded /\ Within(id, p, cfg.loadRadius))
            => LET adds == AddCallsFor(UpdateResult(p, rej).calls, id)
               IN  /\ chunks'[id].isLoaded
                   /\ Len(adds) = Len(chunks[id].trimeshes)
                   /\ \A k \in 1..Len(adds) :
                        /\ adds[k][2] = world
                        /\ adds[k][3].shape = k
                        /\ adds[k][4] = (<<id, k>> \notin rej)
                        /\ adds[k][4] = (adds[k][3] \in worldBodies'[world])
                   /\ chunks'[id].physicsBodies = AcceptedBodies(adds)]_vars

\* a chunk within loadRadius of the player that is loaded with two shapes and
\* one body: the world rejected the other
C11_Witness ==
  /\ world # NULL
  /\ \E a \in DOMAIN chunks :
       /\ chunks[a].isLoaded
       /\ Within(a, playerPosition, cfg.loadRadius)
       /\ Len(chunks[a].trimeshes) = 2
       /\ Len(chunks[a].physicsBodies) = 1
       /\ BodySet(a) \subseteq worldBodies[world]


\* the orders in which the keys of seq can be visited
VisitOrders(seq) ==
  { [i \in 1..Len(seq) |-> seq[f[i]]] :
      f \in { g \in [1..Len(seq) -> 1..Len(seq)] : \A i, j \in 1..Len(seq) : g[i] = g[j] => i = j } }

\* the calls of a log as a multiset: how often each call is in it
CallBag(calls) ==
  [c \in { calls[i] : i \in 1..Len(calls) } |-> Cardinality({ i \in 1..Len(calls) : calls[i] = c })]

BodiesIn(chunk) == { chunk.physicsBodies[i] : i \in 1..Len(chunk.physicsBodies) }

\* C12: had updateChunks(p) visited the chunks in any other order, every chunk
\* would have the same isLoaded flag and the same set of bodies, the world would
\* hold the same bodies, and the same addBody and removeBody calls would have
\* been made, each as often (a body being told by the shape it is made for, and
\* the world rejecting a body for what it is, not for when it comes).
C12_OrderInsensitive ==
  [][\A p \in Positions, rej \in RejectSets :
       (UpdateChunks(p, rej) /\ world # NULL)
       => \A order \in VisitOrders(chunkOrder) :
            LET st == updateChunks(Heap, order, p, cfg, world, rej)
            IN  /\ \A id \in DOMAIN chunks :
                     /\ st.chunks[id].isLoaded = chunks'[id].isLoaded
                     /\ BodiesIn(st.chunks[id]) = BodiesIn(chunks'[id])
                /\ st.wb = worldBodies'
                /\ CallBag(st.calls) = CallBag(UpdateResult(p, rej).calls)]_vars

\* three chunks after updateChunks: one near the player and loaded, the others
\* beyond unloadRadius and unloaded
C12_Witness ==
  /\ world # NULL
  /\ playerPosition \in Positions
  /\ Len(chunkOrder) = 3
  /\ \E a \in DOMAIN chunks :
       /\ chunks[a].isLoaded /\ chunks[a].physicsBodies # <<>>
       /\ Within(a, playerPosition, cfg.loadRadius)
       /\ \A b \in DOMAIN chunks \ {a} :
            ~chunks[b].isLoaded /\ ~Within(b, playerPosition, cfg.unloadRadius)


-----------------------------------------------------------------------------
(* Properties of the shapes and of the bodies made from them *)

\* the mesh that shape k of chunk id was extracted from, as it was at the build
SourceMesh(id, k) == chunks[id].meshChildren[chunks[id].trimeshes[k].index + 1]

\* the world transform the object a mesh is has now
CurrentPose(mesh) == scene[CHOOSE i \in 1..Len(Built) : Built[i] = mesh]

\* the world box a body's shape fills: the trimesh's vertices, not scaled (a
\* body has no scale and the trimesh's own is never set), turned and moved
BodyBox(body) == WorldBox(body.trimesh, body.position, body.quaternion, Vec(1, 1, 1))

\* C13: every body a chunk lists has the position and the orientation its
\* source mesh had when processGeometry ran, wherever the mesh has been moved
\* or turned to since, before the load or between two loads.
C13_SnapshotPose ==
  model # <<>> =>
    \A id \in DOMAIN chunks : \A b \in BodySet(id) :
      /\ b.chunk = id
      /\ b.shape \in 1..Len(chunks[id].trimeshes)
      /\ \E i \in 1..Len(Built) : Built[i] = SourceMesh(id, b.shape)
      /\ b.position = SourceMesh(id, b.shape).position
      /\ b.quaternion = SourceMesh(id, b.shape).quaternion

\* a body in the world whose source mesh is now elsewhere and turned
C13_Witness ==
  /\ model # <<>>
  /\ world # NULL
  /\ \E id \in DOMAIN chunks : \E b \in BodySet(id) :
       /\ chunks[id].isLoaded
       /\ b \in worldBodies[world]
       /\ CurrentPose(SourceMesh(id, b.shape)).position # b.position
       /\ CurrentPose(SourceMesh(id, b.shape)).quaternion # b.quaternion

\* C14: every body a chunk lists carries the world position, orientation and
\* scale of its source mesh: its shape fills the world box the mesh had at the
\* build, also for a mesh whose world scale is not one.
C14_BodyFillsMeshBox ==
  model # <<>> =>
    \A id \in DOMAIN chunks : \A b \in BodySet(id) :
      /\ b.position = SourceMesh(id, b.shape).position
      /\ b.quaternion = SourceMesh(id, b.shape).quaternion
      /\ BodyBox(b) = SourceMesh(id, b.shape).box

\* the positions in meshChildren of the meshes whose extraction succeeds
Extractable(meshChildren) == { i \in 1..Len(meshChildren) : meshChildren[i].geom = "ok" }

\* C15: after processGeometry every chunk has one shape for every one of its
\* meshes that has a usable vertex buffer, in the order of the meshes, whatever
\* meshes without one (no position attribute, or an extraction that throws)
\* come before or after them.
C15_SkipsUnusableMeshes ==
  model # <<>> =>
    \A id \in DOMAIN chunks :
      LET ch == chunks[id] IN
      /\ Len(ch.trimeshes) = Cardinality(Extractable(ch.meshChildren))
      /\ \A n \in 1..Len(ch.trimeshes) :
           /\ ch.trimeshes[n].index + 1 \in Extractable(ch.meshChildren)
           /\ ch.trimeshes[n].trimesh = ch.meshChildren[ch.trimeshes[n].index + 1].local
           /\ \A k \in 1..(n - 1) : ch.trimeshes[k].index < ch.trimeshes[n].index

\* a chunk whose first mesh throws in the extraction, whose second has no
\* position attribute, and whose third has a shape
C15_Witness ==
  /\ model # <<>>
  /\ \E id \in DOMAIN chunks :
       /\ Len(chunks[id].meshChildren) = 3
       /\ chunks[id].meshChildren[1].geom = "throws"
       /\ chunks[id].meshChildren[2].geom = "nopos"
       /\ chunks[id].meshChildren[3].geom = "ok"
       /\ Len(chunks[id].trimeshes) = 1
       /\ chunks[id].trimeshes[1].index = 2


-----------------------------------------------------------------------------
(* Properties of the terrain (loadFromASCII, generateGeometry) *)

\* the geometry of the chunk has been generated
Generated(chunk) == Len(chunk.aabb) > 0

\* the four corners of cell (x, z): h00, h10, h01, h11
CellCorners(chunk, x, z) ==
  << getBlockHeight(chunk, 2 * x, 2 * z), getBlockHeight(chunk, 2 * x + 1, 2 * z),
     getBlockHeight(chunk, 2 * x, 2 * z + 1), getBlockHeight(chunk, 2 * x + 1, 2 * z + 1) >>

\* the places in the group of the meshes made for cell (x, z)
MeshesOfCell(chunk, x, z) ==
  { i \in 1..Len(chunk.geometry) :
      /\ chunk.geometry[i].name[2] = chunk.chunkX * chunk.chunkSize + x
      /\ chunk.geometry[i].name[3] = chunk.chunkZ * chunk.chunkSize + z }

BlocksOfCell(chunk, x, z) ==
  { i \in MeshesOfCell(chunk, x, z) : chunk.geometry[i].type \in {"wall", "slope"} }

GeneratedChunks == { id \in DOMAIN level.chunks : Generated(level.chunks[id]) }

\* C16: in a generated chunk, a cell whose highest corner is above 0 has one
\* block; the block is a wall, one box as high as the highest corner, if and
\* only if the highest corner is more than 4 above the lowest, and a slope
\* otherwise
C16_WallIffSteep ==
  \A id \in GeneratedChunks : \A x \in BlockIndex, z \in BlockIndex :
    LET chunk == level.chunks[id]
        h == CellCorners(chunk, x, z)
        highest == Max4(h[1], h[2], h[3], h[4])
        lowest == Min4(h[1], h[2], h[3], h[4])
        blocks == BlocksOfCell(chunk, x, z)
    IN  highest > 0 =>
          /\ Cardinality(blocks) = 1
          /\ \A i \in blocks :
               IF highest - lowest > 4
               THEN /\ chunk.geometry[i].type = "wall"
                    /\ chunk.geometry[i].size20 = Vec(20, 20 * highest, 20)
               ELSE chunk.geometry[i].type = "slope"

\* a generated chunk whose first cell has the corners (0, 0, 0, 5) and a wall
\* of height 5 for it
C16_Witness ==
  \E id \in GeneratedChunks :
    LET chunk == level.chunks[id]
    IN  /\ CellCorners(chunk, 0, 0) = <<0, 0, 0, 5>>
        /\ \E i \in BlocksOfCell(chunk, 0, 0) :
             /\ chunk.geometry[i].type = "wall"
             /\ chunk.geometry[i].size20[2] = 100

\* C17: the height of every entry of the height tables of every chunk, base
\* plus offset as getBlockHeight returns it, is 0 or more
C17_HeightsNotNegative ==
  \A id \in DOMAIN level.chunks : \A x \in HeightIndex, y \in HeightIndex :
    getBlockHeight(level.chunks[id], x, y) >= 0

\* C18: in a generated chunk, a cell whose four corners all have the height 0
\* has no mesh in the group (no wall, no slope, no object), whatever its tag
C18_NothingOnZeroCell ==
  \A id \in GeneratedChunks : \A x \in BlockIndex, z \in BlockIndex :
    LET chunk == level.chunks[id]
    IN  CellCorners(chunk, x, z) = <<0, 0, 0, 0>> => MeshesOfCell(chunk, x, z) = {}

\* a generated chunk with a cell of four corners of height 0 that is tagged
\* with a crystal, and has no mesh
C18_Witness ==
  \E id \in GeneratedChunks : \E x \in BlockIndex, z \in BlockIndex :
    LET chunk == level.chunks[id]
    IN  /\ CellCorners(chunk, x, z) = <<0, 0, 0, 0>>
        /\ chunk.objects[z][x] = "C"
        /\ MeshesOfCell(chunk, x, z) = {}

\* the chunk is flat at height 1: every base height is 1, every offset 0, and
\* no cell has a tag
FlatAtOne(chunk) ==
  /\ \A x \in HeightIndex, y \in HeightIndex :
       chunk.heightBase[y][x] = 1 /\ chunk.heightOffset[y][x] = 0
  /\ \A x \in BlockIndex, y \in BlockIndex : chunk.objects[y][x] = " "

\* the heights of the four top vertices of a slope: the vertices 4 to 7
TopHeights(mesh) == { MeshVertex(mesh, i)[2] : i \in 4..7 }

\* C19: the group generated for a chunk that is flat at height 1 has exactly 64
\* meshes, one for every cell of the 8 x 8 grid, every one a slope and none a
\* wall, with its four top vertices at height 1
C19_FlatGivesSlopes ==
  \A id \in GeneratedChunks :
    LET chunk == level.chunks[id]
    IN  FlatAtOne(chunk) =>
          /\ Len(chunk.geometry) = 64
          /\ \A i \in 1..Len(chunk.geometry) :
               /\ chunk.geometry[i].type = "slope"
               /\ TopHeights(chunk.geometry[i]) = {1}
          /\ \A x \in 0..7, z \in 0..7 : Cardinality(MeshesOfCell(chunk, x, z)) = 1

\* a generated chunk that is flat at height 1, with meshes in its group
C19_Witness ==
  \E id \in GeneratedChunks :
    /\ FlatAtOne(level.chunks[id])
    /\ Len(level.chunks[id].geometry) = 64

\* the triangles of a mesh with indices
Triangles(mesh) ==
  [t \in 1..(Len(mesh.indices) \div 3) |->
     <<mesh.indices[3 * t - 2], mesh.indices[3 * t - 1], mesh.indices[3 * t]>>]

\* the edges of a triangle, in the direction it goes through them
DirectedEdges(tri) == { <<tri[1], tri[2]>>, <<tri[2], tri[3]>>, <<tri[3], tri[1]>> }

\* the triangles of tris that go through the edge from a to b
Through(tris, a, b) == { t \in DOMAIN tris : <<a, b>> \in DirectedEdges(tris[t]) }

\* the meshes of the generated chunks, and the slopes among them
GeneratedMeshes ==
  UNION { { level.chunks[id].geometry[i] : i \in 1..Len(level.chunks[id].geometry) } :
            id \in GeneratedChunks }

SlopeMeshes == { mesh \in GeneratedMeshes : mesh.type = "slope" }

\* C20: a slope has 8 vertices and 12 triangles, 2 of them on the 4 bottom
\* vertices, 2 on the 4 top vertices and 8 on the sides; every index is one
\* of 0..7; and every edge a triangle goes through is gone through by exactly
\* one triangle in that direction and exactly one in the other
C20_SlopeIsClosed ==
  \A mesh \in SlopeMeshes :
    LET tris == Triangles(mesh)
        bottom == { t \in DOMAIN tris : \A k \in 1..3 : tris[t][k] \in 0..3 }
        top == { t \in DOMAIN tris : \A k \in 1..3 : tris[t][k] \in 4..7 }
    IN  /\ Len(mesh.vertices) = 3 * 8
        /\ Len(mesh.indices) = 3 * 12
        /\ \A i \in 1..Len(mesh.indices) : mesh.indices[i] \in 0..7
        /\ Cardinality(bottom) = 2
        /\ Cardinality(top) = 2
        /\ Cardinality(DOMAIN tris \ (bottom \cup top)) = 8
        /\ \A t \in DOMAIN tris : \A e \in DirectedEdges(tris[t]) :
             /\ e[1] # e[2]
             /\ Through(tris, e[1], e[2]) = {t}
             /\ Cardinality(Through(tris, e[2], e[1])) = 1

\* a generated chunk with a slope whose corners are not all at one height
C20_Witness ==
  \E mesh \in SlopeMeshes : Cardinality(TopHeights(mesh)) > 1

\* a point within a slope whose corners are all 1 or more high, doubled: the
\* middle of the cell, half a unit above the ground
Inside2(mesh) ==
  Vec(2 * mesh.name[2] + 1, 1, 2 * mesh.name[3] + 1)

\* the normal stored for triangle t points away from the inside of the slope
Outward(mesh, t) ==
  LET normal == mesh.normals[3 * t - 2]
      v1 == VertexAt(mesh.vertices, Triangles(mesh)[t][1])
      d == Vec(2 * v1[1] - Inside2(mesh)[1], 2 * v1[2] - Inside2(mesh)[2],
               2 * v1[3] - Inside2(mesh)[3])
  IN  normal[1] * d[1] + normal[2] * d[2] + normal[3] * d[3] > 0

\* C21: the normal of every triangle of a slope whose corner heights are all
\* positive, cross(v2 - v1, v3 - v1), points out of the volume: that of the two
\* bottom triangles has a negative Y, that of the two top triangles a positive Y
C21_NormalsOutward ==
  \A mesh \in SlopeMeshes :
    (\A k \in 1..4 : mesh.userData.cornerHeights[k] > 0) =>
      /\ \A t \in 1..(Len(mesh.indices) \div 3) : Outward(mesh, t)
      /\ \A t \in 1..2 : mesh.normals[3 * t - 2][2] < 0
      /\ \A t \in 3..4 : mesh.normals[3 * t - 2][2] > 0

\* the group of the chunk is what its tables give: the meshes the cells add
UpToDate(chunk) == chunk.geometry = GenerateCells(chunk, level.textureManager).geometry

\* C22: a call of generateGeometry on a chunk whose group was generated from
\* the tables as they are leaves the group as it was: the same meshes in the
\* same order with the same vertices, the second result in place of the first
C22_SecondGenerationSame ==
  [][\A id \in LevelChunkIds :
       (/\ id \in GeneratedChunks
        /\ level.isInitialized
        /\ UpToDate(level.chunks[id])
        /\ level' = generateChunkGeometry(level, id))
       => level'.chunks[id].geometry = level.chunks[id].geometry]_vars

\* a generated chunk with meshes that a further generateChunkGeometry leaves
\* as it is
C22_Witness ==
  \E id \in GeneratedChunks :
    /\ Len(level.chunks[id].geometry) > 1
    /\ UpToDate(level.chunks[id])
    /\ generateChunkGeometry(level, id) = level

\* entry (y, x) of a table of numbers is not given by the text: its row or its
\* column is missing, or its token is no number
NumberMissing(text, y, x) ==
  LET lines == TrimSplit(text, { i \in 1..Len(text) : Len(text[i]) > 0 })
  IN  \/ y >= Len(lines)
      \/ x >= Len(lines[y + 1])
      \/ lines[y + 1][x + 1] \in {Junk, EmptyToken}

\* entry (y, x) of the objects is not given by the text: its row or its column
\* is missing, or its character is not C, S or L
TagMissing(text, y, x) ==
  LET lines == TrimSplit(text, { i \in 1..Len(text) : ~IsBlank(text[i]) })
  IN  \/ y >= Len(lines)
      \/ x >= Len(TrimChars(lines[y + 1]))
      \/ TrimChars(lines[y + 1])[x + 1] \notin {"C", "S", "L"}

\* C23: after a load of a text into a chunk, new or loaded before, every entry
\* of the height and texture tables that the text does not give is 0, and
\* every entry of the objects that the text does not give is ' '
C23_MissingEntriesDefault ==
  [][\A text \in SessionTexts :
       level' = loadChunkFromASCII(level, <<0, 0>>, text) =>
         LET chunk == level'.chunks[<<0, 0>>]
         IN  /\ \A y \in HeightIndex, x \in HeightIndex :
                  /\ NumberMissing(text.heightBase, y, x) => chunk.heightBase[y][x] = 0
                  /\ NumberMissing(text.heightOffset, y, x) => chunk.heightOffset[y][x] = 0
             /\ \A y \in BlockIndex, x \in BlockIndex :
                  /\ NumberMissing(text.sideTextures, y, x) => chunk.sideTextures[y][x] = 0
                  /\ NumberMissing(text.topTextures, y, x) => chunk.topTextures[y][x] = 0
                  /\ TagMissing(text.objects, y, x) => chunk.objects[y][x] = " "]_vars

\* the objects of the chunk are the characters of the text, column by column
\* and line by line, for every line the text has and every column the line has
AsWritten(text, chunk) ==
  \A y \in BlockIndex, x \in BlockIndex :
    (/\ y < Len(text)
     /\ x < Len(text[y + 1])
     /\ text[y + 1][x + 1] \in {"C", "S", "L", " "})
    => chunk.objects[y][x] = text[y + 1][x + 1]

\* C24: after a load, objects[y][x] is the character at column x of line y of
\* the text of the objects, whether or not the line begins with spaces and
\* whether or not the text begins with blank lines; so it is for the texts of
\* a session and for the text of the example level
C24_ObjectGridFixedWidth ==
  [][/\ \A text \in SessionTexts :
          level' = loadChunkFromASCII(level, <<0, 0>>, text)
            => AsWritten(text.objects, level'.chunks[<<0, 0>>])
     /\ level' = createExampleLevel(level)
          => AsWritten(ExampleObjects, level'.chunks[<<0, 0>>])]_vars

-----------------------------------------------------------------------------
(* Properties of the bodies lent to the physics worlds *)

\* C25: after cleanup the chunk map is empty and no world holds a body the
\* manager added to it
C25_CleanupReturnsBodies ==
  [][Cleanup => (chunks' = <<>> /\ \A w \in Worlds : worldBodies'[w] = {})]_vars

\* C26: every body a world holds is listed in the physicsBodies of a chunk
\* that is in the chunk map and is loaded
C26_NoOrphanedBodies ==
  \A w \in Worlds : \A body \in worldBodies[w] :
    \E id \in DOMAIN chunks :
      /\ chunks[id].isLoaded
      /\ \E k \in 1..Len(chunks[id].physicsBodies) : chunks[id].physicsBodies[k] = body

\* C27: a chunk of the chunk map that is not loaded has none of its bodies in
\* a world: every removeBody made for a body went to the world it was added to
C27_RemovedFromOwnWorld ==
  \A w \in Worlds : \A body \in worldBodies[w] :
    body.chunk \in DOMAIN chunks => chunks[body.chunk].isLoaded

-----------------------------------------------------------------------------
(* Properties of addChunk and removeChunk *)

\* the calls addChunk(id) makes on the world
AddChunkCalls(id, rej) ==
  IF ChunkAndWorld(id) THEN addToWorld(Heap, id, world, rej).calls ELSE <<>>

\* the calls removeChunk(id) makes on the world
RemoveChunkCalls(id) ==
  IF ChunkAndWorld(id) THEN removeFromWorld(Heap, id, world).calls ELSE <<>>

\* the state is as it was
NothingChanged == vars' = vars

\* C28: addChunk(id) and removeChunk(id) return true exactly when id is in the
\* chunk map and a world is set, and otherwise leave all state unchanged;
\* addChunk on a loaded chunk and removeChunk on an unloaded chunk call neither
\* addBody nor removeBody, and a chunk never holds more bodies than shapes
C28_ManualLoadUnload ==
  [][/\ \A id \in ChunkIds :
          /\ ChunkAndWorld(id) <=> (id \in DOMAIN chunks /\ world \in Worlds)
          /\ ~ChunkAndWorld(id)
               => /\ (\E rej \in RejectSets : AddChunk(id, rej)) => NothingChanged
                  /\ RemoveChunk(id) => NothingChanged
                  /\ \A rej \in RejectSets : AddChunkCalls(id, rej) = <<>>
                  /\ RemoveChunkCalls(id) = <<>>
          /\ (ChunkAndWorld(id) /\ chunks[id].isLoaded)
               => /\ \A rej \in RejectSets : AddChunkCalls(id, rej) = <<>>
                  /\ (\E rej \in RejectSets : AddChunk(id, rej)) => NothingChanged
          /\ (ChunkAndWorld(id) /\ ~chunks[id].isLoaded)
               => /\ RemoveChunkCalls(id) = <<>>
                  /\ RemoveChunk(id) => NothingChanged
     /\ \A id \in DOMAIN chunks :
          Len(chunks[id].physicsBodies) <= Len(chunks[id].trimeshes)
     /\ \A id \in DOMAIN chunks' :
          Len(chunks'[id].physicsBodies) <= Len(chunks'[id].trimeshes)]_vars

\* a chunk that addChunk loaded (the player has not moved), with a body for
\* each of its shapes, in a session whose world is set
C28_Witness ==
  /\ world \in Worlds
  /\ playerPosition = Vec(0, 0, 0)
  /\ \E id \in DOMAIN chunks :
       /\ chunks[id].isLoaded
       /\ Len(chunks[id].trimeshes) > 1
       /\ Len(chunks[id].physicsBodies) = Len(chunks[id].trimeshes)

-----------------------------------------------------------------------------
(* Properties of updateChunks without a world *)

\* C29: updateChunks(p) called while no world is set calls neither addBody nor
\* removeBody and leaves every chunk's isLoaded flag and physicsBodies list
\* as they were: only the recorded player position changes
C29_NoWorldNoStreaming ==
  [][\A p \in Positions :
       (world = NULL /\ IsUpdateChunks(p))
         => /\ \A rej \in RejectSets : UpdateResult(p, rej).calls = <<>>
            /\ chunks' = chunks
            /\ worldBodies' = worldBodies
            /\ playerPosition' = p
            /\ UNCHANGED <<cfg, chunkOrder, world, model, scene, level, input, sensor, assets>>]_vars

\* no world is set, the player position has been recorded, and a chunk is
\* loaded that a world would have had unloaded: it is beyond unloadRadius
C29_Witness ==
  /\ world = NULL
  /\ playerPosition \in Positions
  /\ \E id \in DOMAIN chunks :
       /\ chunks[id].isLoaded
       /\ chunks[id].physicsBodies # <<>>
       /\ ~Within(id, playerPosition, cfg.unloadRadius)

-----------------------------------------------------------------------------
(* Coverage of the partition *)

\* no chunk lists as many meshes as maxChildrenPerChunk allows
NoChunkAtCap ==
  \A id \in DOMAIN chunks : Len(chunks[id].meshChildren) < cfg.maxChildrenPerChunk

\* mesh i of the collected meshes is listed in a chunk
Listed(i) ==
  \E id \in DOMAIN chunks :
    \E k \in 1..Len(chunks[id].meshChildren) : chunks[id].meshChildren[k] = BuiltMeshes[i]

\* C30: when no chunk reaches its cap, every mesh processGeometry collected is
\* listed in at least one chunk, whatever the model's bounding box, one with
\* no extent along X or along Z included
C30_EveryMeshListed ==
  (model # <<>> /\ NoChunkAtCap) => \A i \in 1..Len(BuiltMeshes) : Listed(i)

-----------------------------------------------------------------------------
(* Properties of the objects on the terrain *)

\* the places in the group of the objects made for cell (x, z)
ObjectsOfCell(chunk, x, z) ==
  { i \in MeshesOfCell(chunk, x, z) : chunk.geometry[i].type = "object" }

\* C31: in a generated chunk a cell with an object (crystal, switch or lift)
\* in the group has a wall or a slope in the group too, whatever the integers
\* of the height tables, negative heights included: no block, no object
C31_ObjectOnlyOnBlock ==
  \A id \in GeneratedChunks : \A x \in BlockIndex, z \in BlockIndex :
    LET chunk == level.chunks[id]
    IN  ObjectsOfCell(chunk, x, z) # {} => BlocksOfCell(chunk, x, z) # {}

-----------------------------------------------------------------------------
(* Properties of the collision shapes of the level *)

\* the shapes of the meshes of the chunk's group as it is, one for each mesh
ShapesOfGeometry(chunk) == generateLevelTrimeshes(chunk).trimeshes

\* the shapes of the groups of the chunks of the order, from chunk n on
RECURSIVE ShapesFrom(_, _)
ShapesFrom(lm, n) ==
  IF n > Len(lm.order) THEN <<>>
  ELSE ShapesOfGeometry(lm.chunks[lm.order[n]]) \o ShapesFrom(lm, n + 1)

\* C32: whatever was loaded and generated before, the shapes getAllTrimeshes
\* returns are those of the meshes of every chunk's group as it is, one shape
\* for each mesh in the same order, and createTrimesh returns one body for
\* each of them
C32_ShapesFollowGeometry ==
  /\ getAllTrimeshes(level).all = ShapesFrom(level, 1)
  /\ level.chunks # <<>>
       => createTrimesh(level).bodies
            = [i \in 1..Len(ShapesFrom(level, 1)) |-> LevelBody(ShapesFrom(level, 1)[i])]

-----------------------------------------------------------------------------
(* The input manager: the registry of handlers *)

MaxHandlers == 2      \* handlers of one event type
MaxGenerated == 1     \* ids the manager makes

\* the event types, callbacks and ids of the registry's session
RegistryTypes == { "tap" }
Callbacks == { "returns", "throws" }
GivenIds == { NoId, <<"a">>, <<"b">> }

\* the ids off is called with: the given one, one that was never set, and
\* those the manager has made
OffIds ==
  { <<"a">>, <<"b">>, <<"none">> }
    \cup { <<t, input.now, n>> : t \in RegistryTypes, n \in 1..MaxGenerated }

TriggerData == { [position |-> [x |-> 1, y |-> 1]] }

allOtherThanInput ==
  <<cfg, chunks, chunkOrder, world, playerPosition, worldBodies, model, scene, level, sensor,
    assets>>

On(eventType, callback, id) ==
  LET r == on(input.im, eventType, callback, id, input.now, input.serial + 1)
  IN  /\ id = NoId => input.serial < MaxGenerated
      /\ Len(r.im.touchHandlers[eventType]) <= MaxHandlers
      /\ input' = [input EXCEPT !.im = r.im,
                                !.serial = IF id = NoId THEN @ + 1 ELSE @,
                                !.returned = r.returns,
                                !.emitted = <<>>, !.invoked = <<>>, !.thrown = FALSE,
                                !.removed = @ \ {<<eventType, r.returns>>}]
      /\ UNCHANGED allOtherThanInput

Off(eventType, handlerId) ==
  /\ input' = [input EXCEPT !.im = off(input.im, eventType, handlerId),
                            !.returned = NoId,
                            !.emitted = <<>>, !.invoked = <<>>, !.thrown = FALSE,
                            !.removed =
                              IF \E k \in 1..Len(HandlersOf(input.im, eventType)) :
                                   HandlersOf(input.im, eventType)[k].id = handlerId
                              THEN @ \cup {<<eventType, handlerId>>}
                              ELSE @]
  /\ UNCHANGED allOtherThanInput

Trigger(eventType, eventData) ==
  LET r == trigger(input.im, eventType, eventData)
  IN  /\ input' = [input EXCEPT !.returned = NoId,
                                !.emitted = <<Emit(eventType, eventData)>>,
                                !.invoked = r.invoked, !.thrown = r.thrown]
      /\ UNCHANGED allOtherThanInput

InputCleanup ==
  /\ input' = [input EXCEPT !.im = inputCleanup(input.im), !.returned = NoId,
                            !.emitted = <<>>, !.invoked = <<>>, !.thrown = FALSE]
  /\ UNCHANGED allOtherThanInput

NextRegistry ==
  \/ \E t \in RegistryTypes, cb \in Callbacks, id \in GivenIds : On(t, cb, id)
  \/ \E t \in RegistryTypes \cup {"move"}, id \in OffIds : Off(t, id)
  \/ \E t \in RegistryTypes \cup {"move"}, data \in TriggerData : Trigger(t, data)
  \/ InputCleanup

SpecRegistry == InitManagers /\ [][NextRegistry]_vars

-----------------------------------------------------------------------------
(* The input manager: the touches *)

MaxTime == 6300       \* the clock stops here

\* what the clock advances by between two calls, in milliseconds
Delays == { 100, 1100 }

\* the native events: a touch with locationX and locationY, and one with
\* pageX and pageY alone
NativeEvents ==
  { [locationX |-> 3, locationY |-> 4, pageX |-> 13, pageY |-> 14],
    [locationX |-> 0, locationY |-> 0, pageX |-> 15, pageY |-> 14] }

\* pressOpen after the events of a list, from event n on
RECURSIVE OpenAfter(_, _, _)
OpenAfter(open, emitted, n) ==
  IF n > Len(emitted) THEN open
  ELSE OpenAfter(IF emitted[n].eventType = "press" THEN TRUE
                 ELSE IF emitted[n].eventType = "release" THEN FALSE
                 ELSE open,
                 emitted, n + 1)

\* the manager after a call of a touch handler that gave r
Touched(r) ==
  LET t == TriggerAll(r.im, r.emitted, 1)
  IN  /\ input' = [input EXCEPT !.im = r.im, !.returned = NoId, !.emitted = r.emitted,
                                !.invoked = t.invoked, !.thrown = t.thrown,
                                !.pressOpen = OpenAfter(@, r.emitted, 1)]
      /\ UNCHANGED allOtherThanInput

\* createTouchHandlers(): onTouchStart, onTouchMove, onTouchEnd, onTouchCancel
HandleTouchStart(nativeEvent) == Touched(handleTouchStart(input.im, nativeEvent, input.now))

HandleTouchMove(nativeEvent) == Touched(handleTouchMove(input.im, nativeEvent, input.now))

HandleTouchEnd(nativeEvent) == Touched(handleTouchEnd(input.im, nativeEvent, input.now))

HandleTouchCancel(nativeEvent) == Touched(handleTouchEnd(input.im, nativeEvent, input.now))

\* time passes
Tick(delay) ==
  /\ input.now + delay <= MaxTime
  /\ input' = [input EXCEPT !.now = @ + delay]
  /\ UNCHANGED allOtherThanInput

NextTouch ==
  \/ \E e \in NativeEvents : HandleTouchStart(e)
  \/ \E e \in NativeEvents : HandleTouchMove(e)
  \/ \E e \in NativeEvents : HandleTouchEnd(e)
  \/ \E e \in NativeEvents : HandleTouchCancel(e)
  \/ \E d \in Delays : Tick(d)

SpecTouch == InitManagers /\ [][NextTouch]_vars

-----------------------------------------------------------------------------
(* Properties of the handler registry (on, off, trigger) *)

\* the ids of the handlers of a list, in order
IdsOf(handlers) == [k \in 1..Len(handlers) |-> handlers[k].id]

\* the handler of the list with the id is there, with the callback
Registered(handlers, handlerId, callback) ==
  \E k \in 1..Len(handlers) : handlers[k].id = handlerId /\ handlers[k].callback = callback

\* C33: on(eventType, callback) returns the id the callback is registered
\* under; off(eventType, id) takes that handler away and leaves every other
\* handler of the type where it was, and for a type or id that is unknown it
\* changes nothing; trigger(eventType) calls every handler registered for the
\* type once and none that off took away and on has not set again
C33_RegistryFollowsOnOff ==
  [][/\ \A t \in RegistryTypes, cb \in Callbacks, id \in GivenIds :
          On(t, cb, id) => Registered(HandlersOf(input'.im, t), input'.returned, cb)
     /\ \A t \in RegistryTypes \cup {"move"}, id \in OffIds :
          Off(t, id) =>
            /\ ~\E k \in 1..Len(HandlersOf(input'.im, t)) : HandlersOf(input'.im, t)[k].id = id
            /\ \A k \in 1..Len(HandlersOf(input.im, t)) :
                 HandlersOf(input.im, t)[k].id # id
                   => Registered(HandlersOf(input'.im, t), HandlersOf(input.im, t)[k].id,
                                 HandlersOf(input.im, t)[k].callback)
            /\ Len(HandlersOf(input'.im, t)) <= Len(HandlersOf(input.im, t))
            /\ (~\E k \in 1..Len(HandlersOf(input.im, t)) : HandlersOf(input.im, t)[k].id = id)
                 => input'.im = input.im
     /\ \A t \in RegistryTypes \cup {"move"}, data \in TriggerData :
          Trigger(t, data) =>
            /\ IdsOf(input'.invoked) = IdsOf(HandlersOf(input.im, t))
            /\ \A k \in 1..Len(input'.invoked) :
                 /\ input'.invoked[k].callback = HandlersOf(input.im, t)[k].callback
                 /\ <<t, input'.invoked[k].id>> \notin input.removed
            /\ input'.im = input.im]_vars

\* a trigger has called a handler of a type of which off took another away
C33_Witness ==
  /\ Len(input.invoked) > 0
  /\ \E pair \in input.removed :
       /\ pair[1] = input.invoked[1].eventType
       /\ \A k \in 1..Len(input.invoked) : input.invoked[k].id # pair[2]

\* C34: when a handler throws during trigger(eventType, data), every other
\* handler registered for the type is still called with the same data, and no
\* error leaves trigger
C34_HandlersIsolated ==
  [][\A t \in RegistryTypes \cup {"move"}, data \in TriggerData :
       Trigger(t, data) =>
         /\ ~input'.thrown
         /\ \A k \in 1..Len(HandlersOf(input.im, t)) :
              \E j \in 1..Len(input'.invoked) :
                /\ input'.invoked[j].id = HandlersOf(input.im, t)[k].id
                /\ input'.invoked[j].callback = HandlersOf(input.im, t)[k].callback
                /\ input'.invoked[j].eventData = data]_vars

\* a trigger has called a handler that throws and, after it, another handler
C34_Witness ==
  /\ ~input.thrown
  /\ \E j \in 1..Len(input.invoked) :
       /\ Throws(input.invoked[j].callback)
       /\ j < Len(input.invoked)

-----------------------------------------------------------------------------
(* Properties of the touch events *)

\* the step is a call of one of the four touch handlers
IsTouch ==
  \E e \in NativeEvents :
    HandleTouchStart(e) \/ HandleTouchMove(e) \/ HandleTouchEnd(e) \/ HandleTouchCancel(e)

\* the step is a touch end or a touch cancel
IsTouchEnd == \E e \in NativeEvents : HandleTouchEnd(e) \/ HandleTouchCancel(e)

\* C35: whatever the sequence of touch starts, moves, ends and cancels, a
\* tap, a long press and a release are emitted only after a press that no
\* release has followed, a move only while isPressed is true, and a touch end
\* or cancel that no touch start came before emits no event
C35_TouchProtocol ==
  [][/\ IsTouch =>
          \A k \in 1..Len(input'.emitted) :
            /\ input'.emitted[k].eventType \in {"tap", "longpress", "release"}
                 => OpenAfter(input.pressOpen, SubSeq(input'.emitted, 1, k - 1), 1)
            /\ input'.emitted[k].eventType = "move" => input.im.isPressed
     /\ (IsTouchEnd /\ ~input.im.isPressed) => input'.emitted = <<>>]_vars

-----------------------------------------------------------------------------
(* The accelerometer manager *)

MaxStarts == 2        \* calls of start
MaxUpdates == 2       \* readings the active manager takes

allOtherThanSensor ==
  <<cfg, chunks, chunkOrder, world, playerPosition, worldBodies, model, scene, level, input,
    assets>>

\* start() is called
Start ==
  /\ Len(sensor.starts) < MaxStarts
  /\ sensor' = startCalled(sensor)
  /\ UNCHANGED allOtherThanSensor

\* Accelerometer.isAvailableAsync() of a call of start resolves
AvailabilityResolves(k, available) ==
  /\ k \in 1..Len(sensor.starts)
  /\ sensor.starts[k].pc = "available"
  /\ sensor' = availabilityResolved(sensor, k, available)
  /\ UNCHANGED allOtherThanSensor

\* the sensor has a reading
SensorEvent(data) ==
  /\ sensor.updates < MaxUpdates
  /\ sensor' = sensorEvent(sensor, data)
  /\ UNCHANGED allOtherThanSensor

\* stop(), and cleanup(), which calls it
Stop ==
  /\ sensor' = stop(sensor)
  /\ UNCHANGED allOtherThanSensor

SetGravityChangeCallback(callback) ==
  /\ sensor' = setGravityChangeCallback(sensor, callback)
  /\ UNCHANGED allOtherThanSensor

ResetReference ==
  /\ sensor' = resetReference(sensor)
  /\ UNCHANGED allOtherThanSensor

\* the options of the managers of the gravity's session: the exported
\* manager's, the defaults, and quick ones with no smoothing
GravityOptions ==
  { SingletonSensorOptions, SensorOptions(0, 0, 0, 0), SensorOptions(40, 16, 100, 2000) }

\* readings, in hundredths of g: the device lying flat, tilted, and shaken
\* sideways
FlatReading == Vec(0, 0, -100)
Readings == { FlatReading, Vec(50, 0, -86), Vec(600, 0, -100) }

\* the manager is constructed with the options
InitSensor(optionSets) ==
  /\ cfg = PhysicsManagerConstructor(Opt(0, 0, 0, 0))
  /\ chunks = <<>>
  /\ chunkOrder = <<>>
  /\ world = NULL
  /\ playerPosition = Vec(0, 0, 0)
  /\ worldBodies = [w \in Worlds |-> {}]
  /\ model = <<>>
  /\ scene = <<>>
  /\ level = LevelManager([chunkSize |-> 8])
  /\ input = InputSystem
  /\ assets = AssetSystem
  /\ \E options \in optionSets : sensor = SensorSystem(options)

\* One session of the gravity: the manager is started once, calibrated while
\* the device lies flat, and takes readings
NextGravity ==
  \/ sensor.starts = <<>> /\ Start
  \/ AvailabilityResolves(1, TRUE)
  \/ SensorEvent(FlatReading)
  \/ \E data \in Readings : sensor.am.isActive /\ SensorEvent(data)
  \/ SetGravityChangeCallback("setGravity")
  \/ ResetReference

SpecGravity == InitSensor(GravityOptions) /\ [][NextGravity]_vars

\* One session of the life of the exported manager: start and stop at any
\* time, the device lying flat
NextLifecycle ==
  \/ Start
  \/ \E k \in 1..MaxStarts, available \in BOOLEAN : AvailabilityResolves(k, available)
  \/ SensorEvent(FlatReading)
  \/ Stop
  \/ SetGravityChangeCallback("setGravity")

SpecLifecycle == InitSensor({SingletonSensorOptions}) /\ [][NextLifecycle]_vars

-----------------------------------------------------------------------------
(* Properties of the accelerometer manager *)

\* C36: the gravity vector an active manager stores, and hands to
\* onGravityChange, after handleAccelerometerUpdate is no longer than
\* maxGravity, whatever the readings and the reference vector
C36_GravityClamped ==
  /\ sensor.updates > 0
       => LengthSq(sensor.am.gravityVector) <= sensor.am.maxGravity * sensor.am.maxGravity
  /\ \A k \in 1..Len(sensor.delivered) :
       LengthSq(sensor.delivered[k]) <= sensor.am.maxGravity * sensor.am.maxGravity

\* the live listeners of the sensor that are handleAccelerometerUpdate
UpdateListeners == SelectSeq(sensor.listeners, LAMBDA l : l.kind = "update")

\* C37: once stop() has returned and start() was not called since, the
\* manager is not active, holds no subscription and hands no gravity to its
\* callback, also when stop() came while a start() awaited its calibration;
\* and two calls of start() that overlap leave one live subscription at most
C37_StoppedStaysStopped ==
  /\ sensor.stopped =>
       /\ ~sensor.am.isActive
       /\ sensor.am.subscription = 0
       /\ sensor.delivered = <<>>
  /\ Len(UpdateListeners) <= 1

-----------------------------------------------------------------------------
(* The asset manager *)

allOtherThanAssets ==
  <<cfg, chunks, chunkOrder, world, playerPosition, worldBodies, model, scene, level, input,
    sensor>>

\* the names and keys the loads are asked with: the models of the registry
\* and one that is not in it, no key and the key the app loads its level under
ModelNames == RegistryModels \cup { "missing.glb" }
ModelKeys == { NoKey, "currentLevel" }
TextureNames == { NoKey, "block01.png", "missing.png" }
UnloadKeys == { NoKey, "currentLevel", "level1.glb", "block01.png" }

\* the call as assets.call keeps it, with the manager it met
Call(modelName, key) == <<[modelName |-> modelName, key |-> key, before |-> assets.am]>>

\* loadModel(modelName, modelKey); loads tells whether download and parse
\* succeed
LoadModel(modelName, modelKey, loads) ==
  /\ LET r == loadModel(assets.am, modelName, modelKey, loads)
     IN  assets' = [am |-> r.am, call |-> Call(modelName, modelKey), returned |-> r.returns]
  /\ UNCHANGED allOtherThanAssets

\* loadLevel(modelName, textureName, levelKey)
LoadLevel(modelName, textureName, levelKey, modelLoads, textureLoads) ==
  /\ LET r == loadLevel(assets.am, modelName, textureName, levelKey, modelLoads, textureLoads)
     IN  assets' = [am |-> r.am, call |-> Call(modelName, levelKey), returned |-> r.returns]
  /\ UNCHANGED allOtherThanAssets

\* unloadAssets(key)
UnloadAssets(key) ==
  /\ assets' = [am |-> unloadAssets(assets.am, key), call |-> <<>>, returned |-> <<>>]
  /\ UNCHANGED allOtherThanAssets

NextAssets ==
  \/ \E modelName \in ModelNames, modelKey \in ModelKeys, loads \in BOOLEAN :
       LoadModel(modelName, modelKey, loads)
  \/ \E modelName \in ModelNames, textureName \in TextureNames, levelKey \in ModelKeys,
        modelLoads \in BOOLEAN, textureLoads \in BOOLEAN :
       LoadLevel(modelName, textureName, levelKey, modelLoads, textureLoads)
  \/ \E key \in UnloadKeys : UnloadAssets(key)

SpecAssets == InitManagers /\ [][NextAssets]_vars

-----------------------------------------------------------------------------
(* Properties of the asset manager *)

\* C38: loadModel and loadLevel return a clone of the model named modelName,
\* or null, whatever was loaded before: a load of another modelName under a
\* key that holds a model does not return that earlier model; and a load
\* that returns null leaves the cache of models as it was
C38_ReturnsTheModelAsked ==
  assets.call # <<>> =>
    /\ assets.returned # <<>> =>
         /\ assets.returned[1].source = assets.call[1].modelName
         /\ assets.returned[1].clone
    /\ assets.returned = <<>> => assets.am.loadedModels = assets.call[1].before.loadedModels

====
